---- MODULE Spec2Model ----
(***************************************************************************)
(* A model of the MIPS-I CPU simulator of src/src/hnm13/mips_cpu.c.        *)
(*                                                                         *)
(* A 32-bit quantity (uint32_t) is the pair <<h, l>> of its upper and      *)
(* lower 16 bits, so that arithmetic modulo 2^32 is exact.  A signed view  *)
(* (int32_t) of a word is an integer in INT_MIN..INT_MAX.                  *)
(***************************************************************************)
EXTENDS Integers, Sequences, FiniteSets, TLC

VARIABLES
    cpu,    \* the CPU object (struct mips_cpu_impl)
    mem,    \* the bytes of the RAM the CPU is wired to
    last,   \* the last API call and what it returned
    pre,    \* cpu and mem as they were before that call
    hist,   \* the successful steps since pc was last set, the latest three:
            \* where each ran, what it executed and on which registers
    steps,  \* number of mips_cpu_step calls so far
    calls   \* number of other API calls so far

vars == <<cpu, mem, last, pre, hist, steps, calls>>

NUM_REGS == 32
INT_MAX == 2147483647
INT_MIN == -2147483647 - 1

(* the RAM of the test bed: mips_mem_create_ram(64, 4) *)
MemSize == 64
BlockSize == 4

(* bounds of the exploration *)
MaxSteps == 3
MaxCalls == 1

-----------------------------------------------------------------------------
(* 32-bit words *)

W(h, l) == <<h, l>>
U32(n) == <<0, n>>
Zero32 == <<0, 0>>

Add32(a, b) ==
    LET s == a[2] + b[2]
    IN  <<(a[1] + b[1] + (s \div 65536)) % 65536, s % 65536>>

Not32(a) == <<65535 - a[1], 65535 - a[2]>>
Neg32(a) == Add32(Not32(a), U32(1))

(* (int32_t)w *)
ToInt32(w) ==
    IF w[1] >= 32768 THEN (w[1] - 65536) * 65536 + w[2]
                     ELSE w[1] * 65536 + w[2]

(* (uint32_t)x for an int x in INT_MIN..INT_MAX *)
FromInt32(x) ==
    IF x >= 0 THEN <<x \div 65536, x % 65536>>
              ELSE <<((x \div 65536) + 65536) % 65536, x % 65536>>

(* (uint32_t)(int16_t)v for v in 0..65535 *)
SignExt16(v) == IF v >= 32768 THEN <<65535, v>> ELSE <<0, v>>

(* w << n, w >> n and (int32_t)w >> n for n in 0..31, on the halves *)
Shl32(w, n) ==
    IF n >= 16 THEN <<(w[2] % (2 ^ (32 - n))) * (2 ^ (n - 16)), 0>>
    ELSE <<(w[1] % (2 ^ (16 - n))) * (2 ^ n) + (w[2] \div (2 ^ (16 - n))),
           (w[2] % (2 ^ (16 - n))) * (2 ^ n)>>

Shr32(w, n) ==
    IF n >= 16 THEN <<0, w[1] \div (2 ^ (n - 16))>>
    ELSE <<w[1] \div (2 ^ n),
           (w[1] % (2 ^ n)) * (2 ^ (16 - n)) + (w[2] \div (2 ^ n))>>

(* the sign bit is shifted in *)
Sar32(w, n) ==
    IF w[1] < 32768 THEN Shr32(w, n)
    ELSE LET z == Shr32(<<65535 - w[1], 65535 - w[2]>>, n)
         IN  <<65535 - z[1], 65535 - z[2]>>

(* bitwise operators on naturals below 2^16 *)
RECURSIVE And16(_, _)
And16(a, b) ==
    IF a = 0 \/ b = 0 THEN 0
    ELSE (a % 2) * (b % 2) + 2 * And16(a \div 2, b \div 2)

RECURSIVE Or16(_, _)
Or16(a, b) ==
    IF a = 0 THEN b
    ELSE IF b = 0 THEN a
    ELSE (IF a % 2 = 1 \/ b % 2 = 1 THEN 1 ELSE 0) + 2 * Or16(a \div 2, b \div 2)

RECURSIVE Xor16(_, _)
Xor16(a, b) ==
    IF a = 0 THEN b
    ELSE IF b = 0 THEN a
    ELSE ((a + b) % 2) + 2 * Xor16(a \div 2, b \div 2)

And32(a, b) == <<And16(a[1], b[1]), And16(a[2], b[2])>>
Or32(a, b)  == <<Or16(a[1], b[1]), Or16(a[2], b[2])>>
Xor32(a, b) == <<Xor16(a[1], b[1]), Xor16(a[2], b[2])>>

(* a < b as unsigned 32-bit values *)
Ult32(a, b) == a[1] < b[1] \/ (a[1] = b[1] /\ a[2] < b[2])

-----------------------------------------------------------------------------
(* Instruction decoding *)

get_rtype(instr) ==
    [opcode |-> instr[1] \div 1024,
     s1     |-> (instr[1] \div 32) % 32,
     s2     |-> instr[1] % 32,
     d      |-> instr[2] \div 2048,
     shift  |-> (instr[2] \div 64) % 32,
     f      |-> instr[2] % 64]

get_itype(instr) ==
    [opcode |-> instr[1] \div 1024,
     s      |-> (instr[1] \div 32) % 32,
     d      |-> instr[1] % 32,
     imm    |-> SignExt16(instr[2])]

get_jtype(instr) ==
    [opcode |-> instr[1] \div 1024,
     imm    |-> <<instr[1] % 1024, instr[2]>>]

(* reverse_word on a little-endian host: the bytes of the word are swapped
   end for end *)
reverse_word(w) ==
    <<(w[2] % 256) * 256 + (w[2] \div 256), (w[1] % 256) * 256 + (w[1] \div 256)>>

(* reverse_half on a 16-bit value *)
reverse_half(v) == (v % 256) * 256 + (v \div 256)

(* the uint32_t (uint16_t) whose bytes in host memory, lowest address first,
   are the sequence b *)
HostWord(b) == <<b[4] * 256 + b[3], b[2] * 256 + b[1]>>
HostHalf(b) == b[2] * 256 + b[1]

(* the bytes of a uint32_t (uint16_t) in host memory, lowest address first *)
WordBytes(w) == <<w[2] % 256, w[2] \div 256, w[1] % 256, w[1] \div 256>>
HalfBytes(v) == <<v % 256, v \div 256>>

-----------------------------------------------------------------------------
(* The memory collaborator: a RAM of MemSize bytes that accepts only spans
   made of whole blocks of BlockSize bytes *)

InRange(addr, length) == addr[1] = 0 /\ addr[2] + length <= MemSize

mips_mem_read(m, addr, length) ==
    IF addr[2] % BlockSize # 0 \/ length % BlockSize # 0
    THEN [error |-> "ExceptionInvalidAlignment", data |-> <<>>]
    ELSE IF ~InRange(addr, length)
    THEN [error |-> "ExceptionInvalidAddress", data |-> <<>>]
    ELSE [error |-> "Success", data |-> [i \in 1..length |-> m[addr[2] + i - 1]]]

mips_mem_write(m, addr, length, data) ==
    IF addr[2] % BlockSize # 0 \/ length % BlockSize # 0
    THEN [error |-> "ExceptionInvalidAlignment", mem |-> m]
    ELSE IF ~InRange(addr, length)
    THEN [error |-> "ExceptionInvalidAddress", mem |-> m]
    ELSE [error |-> "Success",
          mem |-> [a \in DOMAIN m |->
                     IF a >= addr[2] /\ a < addr[2] + length
                     THEN data[a - addr[2] + 1] ELSE m[a]]]

-----------------------------------------------------------------------------
(* Results of a handler: the error it returns, the CPU state and the memory
   it leaves, and whether it scheduled a delayed transfer (and where to) *)

(* a fault that cancels the delayed transfer *)
Fault_Resync(e, s, m) ==
    [error |-> e, state |-> [s EXCEPT !.pcN = Add32(s.pc, U32(4))], mem |-> m,
     taken |-> FALSE, target |-> Zero32]

(* a fault that takes pc from the exception-handler table when the entry
   of SystemCall is set *)
Fault_Vector(e, s, m) ==
    [error |-> e,
     state |-> IF e = "ExceptionSystemCall" /\ s.exception[7] # <<0, 0>>
               THEN [s EXCEPT !.pc = s.exception[7]] ELSE s,
     mem |-> m, taken |-> FALSE, target |-> <<0, 0>>]

Fault(e, s, m) ==
    [error |-> e, state |-> s, mem |-> m, taken |-> FALSE, target |-> Zero32]

Done(s, m) ==
    [error |-> "Success", state |-> s, mem |-> m, taken |-> FALSE, target |-> Zero32]

Transfer(s, m, t) ==
    [error |-> "Success", state |-> s, mem |-> m, taken |-> TRUE, target |-> t]

(* x & bit # 0, for bit a power of two *)
BitSet(x, bit) == (x \div bit) % 2 = 1

set_reg(state, index, value) ==
    [state EXCEPT !.reg[index] = IF index # 0 THEN value ELSE Zero32]

(* advance_pc with the new pcN taken from the pc of before the call *)
advance_pc_FromOldPc(state) ==
    [state EXCEPT !.pc = state.pcN, !.pcN = Add32(state.pc, U32(4))]

(* advance_pc that steps over one instruction more *)
advance_pc_Skip(state) ==
    [state EXCEPT !.pc = Add32(state.pcN, U32(4)), !.pcN = Add32(state.pcN, U32(8))]

advance_pc(state) ==
    [state EXCEPT !.pc = state.pcN, !.pcN = Add32(state.pcN, U32(4))]

(* set_branch_delay without the delay: control goes to the target at once *)
set_branch_delay_Immediate(state, value) ==
    [state EXCEPT !.pc = value, !.pcN = Add32(value, U32(4))]

set_branch_delay(state, value) ==
    [state EXCEPT !.pc = state.pcN, !.pcN = value]

(* link with the address of the delay slot as the return address *)
link_DelaySlot(state, opcode, bit) ==
    IF BitSet(opcode, bit) THEN set_reg(state, 31, Add32(state.pc, U32(4)))
                           ELSE state

link(state, opcode, bit) ==
    IF BitSet(opcode, bit) THEN set_reg(state, 31, Add32(state.pc, U32(8)))
                           ELSE state

jump(state, m, instruction) ==
    LET operands == get_jtype(instruction)
        s1 == link(state, operands.opcode, 1)
        next == Add32(s1.pc, U32(4))
        t == Or32(<<And16(next[1], 61440), 0>>, Shl32(operands.imm, 2))
    IN  Transfer(set_branch_delay(s1, t), m, t)

(* what a build makes of a signed operation that the language leaves
   undefined, an int32_t addition whose sum is outside int32_t or a left
   shift of a negative int: the result modulo 2^32, or a trap that ends the
   process inside the call *)
SignedOverflow == {"wrap", "trap"}

(* ub is the build's outcome of (int16_t)imm << 2 for a negative imm, which
   is evaluated when the branch is taken *)
branch_zero(state, m, instruction, ub) ==
    LET operands == get_itype(instruction)
        value == ToInt32(state.reg[operands.s])
        sel == operands.opcode * 2 + (operands.d % 2)
        result == CASE sel = 2  -> value < 0
                    [] sel = 3  -> value >= 0
                    [] sel = 12 -> value <= 0
                    [] sel = 14 -> value > 0
                    [] OTHER    -> FALSE
        s1 == link(state, operands.d, 32)
        t == Add32(Add32(s1.pc, U32(4)), Shl32(operands.imm, 2))
    IN  IF sel \notin {2, 3, 12, 14}
        THEN Fault("ExceptionInvalidInstruction", state, m)
        ELSE IF result /\ operands.imm[1] >= 32768 /\ ub = "trap"
        THEN Fault("Aborted", s1, m)
        ELSE IF result THEN Transfer(set_branch_delay(s1, t), m, t)
        ELSE Done(advance_pc(s1), m)

branch_var(state, m, instruction, ub) ==
    LET operands == get_itype(instruction)
        eq == state.reg[operands.s] = state.reg[operands.d]
        result == IF operands.opcode % 2 = 1 THEN ~eq ELSE eq
        t == Add32(Add32(state.pc, U32(4)), Shl32(operands.imm, 2))
    IN  IF result /\ operands.imm[1] >= 32768 /\ ub = "trap"
        THEN Fault("Aborted", state, m)
        ELSE IF result THEN Transfer(set_branch_delay(state, t), m, t)
        ELSE Done(advance_pc(state), m)

(* x + y of two int32_t is outside int32_t *)
Overflows(x, y) == (y > 0 /\ x > INT_MAX - y) \/ (y < 0 /\ x < INT_MIN - y)

(* ub is the build's outcome of the signed addition x + y in the call of
   set_reg, which ADDIU reaches without the overflow test *)
addi(state, m, instruction, ub) ==
    LET operands == get_itype(instruction)
        value == state.reg[operands.s]
        x == ToInt32(value)
        y == ToInt32(operands.imm)
    IN  IF operands.opcode % 2 = 0 /\ Overflows(x, y)
        THEN Fault("ExceptionArithmeticOverflow", state, m)
        ELSE IF Overflows(x, y) /\ ub = "trap"
        THEN Fault("Aborted", state, m)
        ELSE Done(advance_pc(set_reg(state, operands.d, Add32(value, operands.imm))), m)

slti(state, m, instruction) ==
    LET operands == get_itype(instruction)
        value == state.reg[operands.s]
        result == IF operands.opcode % 2 = 1
                  THEN Ult32(value, operands.imm)
                  ELSE ToInt32(value) < ToInt32(operands.imm)
    IN  Done(advance_pc(set_reg(state, operands.d, U32(IF result THEN 1 ELSE 0))), m)

bitwise_imm(state, m, instruction) ==
    LET operands == get_itype(instruction)
        value == state.reg[operands.s]
        imm == U32(operands.imm[2])
        sel == operands.opcode % 4
        result == CASE sel = 0 -> And32(value, imm)
                    [] sel = 1 -> Or32(value, imm)
                    [] sel = 2 -> Xor32(value, imm)
                    [] OTHER   -> Zero32
    IN  IF sel = 3 THEN Fault("ExceptionInvalidInstruction", state, m)
        ELSE Done(advance_pc(set_reg(state, operands.d, result)), m)

lui(state, m, instruction) ==
    LET operands == get_itype(instruction)
    IN  Done(advance_pc(set_reg(state, operands.d, Shl32(operands.imm, 16))), m)

-----------------------------------------------------------------------------
(* Memory instructions *)

(* the effective address of a memory instruction *)
EffAddr(state, operands, offset) ==
    Add32(Add32(state.reg[operands.s], operands.imm), FromInt32(offset))

(* mem_base without the second attempt on the enclosing words: what the
   collaborator answers to the span as requested is returned *)
mem_base_NoRetry(state, m, operands, load, length, word, offset, align) ==
    LET addr == EffAddr(state, operands, offset)
    IN  IF state.mem = "NULL"
        THEN [error |-> "ErrorInvalidHandle", data |-> <<>>, mem |-> m, accesses |-> 0]
        ELSE IF addr[2] % align # 0 \/ length % align # 0
        THEN [error |-> "ExceptionInvalidAlignment", data |-> <<>>, mem |-> m, accesses |-> 0]
        ELSE IF load
        THEN [error |-> mips_mem_read(m, addr, length).error,
              data |-> mips_mem_read(m, addr, length).data, mem |-> m,
              accesses |-> 1]
        ELSE [error |-> mips_mem_write(m, addr, length, word).error,
              data |-> word, mem |-> mips_mem_write(m, addr, length, word).mem,
              accesses |-> 1]

(* mem_base without its own test of the address against align *)
mem_base_NoAlignTest(state, m, operands, load, length, word, offset, align) ==
    LET addr == EffAddr(state, operands, offset)
        first == IF load
                 THEN [error |-> mips_mem_read(m, addr, length).error,
                       data |-> mips_mem_read(m, addr, length).data, mem |-> m,
                       accesses |-> 1]
                 ELSE [error |-> mips_mem_write(m, addr, length, word).error,
                       data |-> word, mem |-> mips_mem_write(m, addr, length, word).mem,
                       accesses |-> 1]
        data_offset == addr[2] % 4
        new_addr == Add32(addr, FromInt32(-data_offset))
        len0 == length + data_offset
        new_len == IF len0 % 4 # 0 THEN len0 + (4 - (len0 % 4)) ELSE len0
        block == mips_mem_read(m, new_addr, new_len)
        merged == [i \in 1..new_len |->
                     IF i > data_offset /\ i <= data_offset + length
                     THEN word[i - data_offset] ELSE block.data[i]]
        wr == mips_mem_write(m, new_addr, new_len, merged)
    IN  IF state.mem = "NULL"
        THEN [error |-> "ErrorInvalidHandle", data |-> <<>>, mem |-> m, accesses |-> 0]
        ELSE IF first.error # "ExceptionInvalidAlignment" THEN first
        ELSE IF new_len > 8 THEN first
        ELSE IF block.error # "Success"
        THEN [error |-> block.error, data |-> <<>>, mem |-> m, accesses |-> 2]
        ELSE IF load
        THEN [error |-> "Success",
              data |-> [i \in 1..length |-> block.data[data_offset + i]], mem |-> m,
              accesses |-> 2]
        ELSE [error |-> wr.error, data |-> word, mem |-> wr.mem, accesses |-> 3]

(* mem_base: word is the byte sequence to store (ignored by a load); the
   result carries the bytes loaded (data), the memory left, and the number
   of calls made to mips_mem_read and mips_mem_write (accesses) *)
mem_base(state, m, operands, load, length, word, offset, align) ==
    LET addr == EffAddr(state, operands, offset)
        first == IF load
                 THEN [error |-> mips_mem_read(m, addr, length).error,
                       data |-> mips_mem_read(m, addr, length).data, mem |-> m,
                       accesses |-> 1]
                 ELSE [error |-> mips_mem_write(m, addr, length, word).error,
                       data |-> word, mem |-> mips_mem_write(m, addr, length, word).mem,
                       accesses |-> 1]
        data_offset == addr[2] % 4
        new_addr == Add32(addr, FromInt32(-data_offset))
        len0 == length + data_offset
        new_len == IF len0 % 4 # 0 THEN len0 + (4 - (len0 % 4)) ELSE len0
        block == mips_mem_read(m, new_addr, new_len)
        merged == [i \in 1..new_len |->
                     IF i > data_offset /\ i <= data_offset + length
                     THEN word[i - data_offset] ELSE block.data[i]]
        wr == mips_mem_write(m, new_addr, new_len, merged)
    IN  IF state.mem = "NULL"
        THEN [error |-> "ErrorInvalidHandle", data |-> <<>>, mem |-> m, accesses |-> 0]
        ELSE IF addr[2] % align # 0 \/ length % align # 0
        THEN [error |-> "ExceptionInvalidAlignment", data |-> <<>>, mem |-> m,
              accesses |-> 0]
        ELSE IF first.error # "ExceptionInvalidAlignment" THEN first
        ELSE IF new_len > 8 THEN first
        ELSE IF block.error # "Success"
        THEN [error |-> block.error, data |-> <<>>, mem |-> m, accesses |-> 2]
        ELSE IF load
        THEN [error |-> "Success",
              data |-> [i \in 1..length |-> block.data[data_offset + i]], mem |-> m,
              accesses |-> 2]
        ELSE [error |-> wr.error, data |-> word, mem |-> wr.mem, accesses |-> 3]

(* the coprocessor callables: "NULL" is an empty slot, "ok" a callable that
   succeeds, any other value a callable that fails with that error *)
HookError(h) == IF h = "ok" THEN "Success" ELSE h

(* the word an swc callable hands over *)
CopWord == <<51966, 47806>>

copz(state, m, instruction) ==
    LET cop == state.coprocessor[(instruction[1] \div 1024) % 4].cop
    IN  IF cop = "NULL" THEN Fault("ErrorNotImplemented", state, m)
        ELSE IF HookError(cop) = "Success" THEN Done(advance_pc(state), m)
        ELSE Fault(HookError(cop), state, m)

lwcz(state, m, instruction) ==
    LET lwc == state.coprocessor[(instruction[1] \div 1024) % 4].lwc
        operands == get_itype(instruction)
        r == mem_base(state, m, operands, TRUE, 4, <<>>, 0, 4)
    IN  IF lwc = "NULL" THEN Fault("ErrorNotImplemented", state, m)
        ELSE IF r.error # "Success" THEN Fault(r.error, state, m)
        ELSE IF HookError(lwc) = "Success" THEN Done(advance_pc(state), m)
        ELSE Fault(HookError(lwc), state, m)

swcz(state, m, instruction) ==
    LET swc == state.coprocessor[(instruction[1] \div 1024) % 4].swc
        operands == get_itype(instruction)
        r == mem_base(state, m, operands, TRUE, 4, WordBytes(CopWord), 0, 4)
    IN  IF swc = "NULL" THEN Fault("ErrorNotImplemented", state, m)
        ELSE IF HookError(swc) # "Success" THEN Fault(HookError(swc), state, m)
        ELSE IF r.error = "Success" THEN Done(advance_pc(state), r.mem)
        ELSE Fault(r.error, state, r.mem)

(* (uint32_t)(int8_t)b for a byte b *)
SignExt8(b) == IF b >= 128 THEN <<65535, 65280 + b>> ELSE <<0, b>>

lb(state, m, instruction) ==
    LET operands == get_itype(instruction)
        r == mem_base(state, m, operands, TRUE, 1, <<>>, 0, 1)
        word == r.data[1]
    IN  IF r.error # "Success" THEN Fault(r.error, state, m)
        ELSE Done(advance_pc(set_reg(state, operands.d,
                  IF BitSet(operands.opcode, 4) THEN U32(word) ELSE SignExt8(word))), m)

lh(state, m, instruction) ==
    LET operands == get_itype(instruction)
        r == mem_base(state, m, operands, TRUE, 2, <<>>, 0, 2)
        word == reverse_half(HostHalf(r.data))
    IN  IF r.error # "Success" THEN Fault(r.error, state, m)
        ELSE Done(advance_pc(set_reg(state, operands.d,
                  IF BitSet(operands.opcode, 4) THEN U32(word) ELSE SignExt16(word))), m)

lw(state, m, instruction) ==
    LET operands == get_itype(instruction)
        r == mem_base(state, m, operands, TRUE, 4, <<>>, 0, 4)
    IN  IF r.error # "Success" THEN Fault(r.error, state, m)
        ELSE Done(advance_pc(set_reg(state, operands.d,
                  reverse_word(HostWord(r.data)))), m)

lwl(state, m, instruction) ==
    LET operands == get_itype(instruction)
        r == mem_base(state, m, operands, TRUE, 2, <<>>, 0, 1)
        word == reverse_half(HostHalf(r.data))
    IN  IF r.error # "Success" THEN Fault(r.error, state, m)
        ELSE Done(advance_pc(set_reg(state, operands.d,
                  <<word, state.reg[operands.d][2]>>)), m)

(* lwr that reads the two bytes from the effective address on *)
lwr_NoOffset(state, m, instruction) ==
    LET operands == get_itype(instruction)
        r == mem_base(state, m, operands, TRUE, 2, <<>>, 0, 1)
        word == reverse_half(HostHalf(r.data))
    IN  IF r.error # "Success" THEN Fault(r.error, state, m)
        ELSE Done(advance_pc(set_reg(state, operands.d,
                  <<state.reg[operands.d][1], word>>)), m)

lwr(state, m, instruction) ==
    LET operands == get_itype(instruction)
        r == mem_base(state, m, operands, TRUE, 2, <<>>, -1, 1)
        word == reverse_half(HostHalf(r.data))
    IN  IF r.error # "Success" THEN Fault(r.error, state, m)
        ELSE Done(advance_pc(set_reg(state, operands.d,
                  <<state.reg[operands.d][1], word>>)), m)

(* sb that stores the whole word that holds the byte *)
sb_Word(state, m, instruction) ==
    LET operands == get_itype(instruction)
        word == state.reg[operands.d][2] % 256
        r == mem_base(state, m, operands, FALSE, 4, <<word, 0, 0, 0>>, 0, 1)
    IN  IF r.error # "Success" THEN Fault(r.error, state, r.mem)
        ELSE Done(advance_pc(state), r.mem)

sb(state, m, instruction) ==
    LET operands == get_itype(instruction)
        word == state.reg[operands.d][2] % 256
        r == mem_base(state, m, operands, FALSE, 1, <<word>>, 0, 1)
    IN  IF r.error # "Success" THEN Fault(r.error, state, r.mem)
        ELSE Done(advance_pc(state), r.mem)

(* sh without reverse_half *)
sh_NoReverse(state, m, instruction) ==
    LET operands == get_itype(instruction)
        word == state.reg[operands.d][2]
        r == mem_base(state, m, operands, FALSE, 2, HalfBytes(word), 0, 2)
    IN  IF r.error # "Success" THEN Fault(r.error, state, r.mem)
        ELSE Done(advance_pc(state), r.mem)

sh(state, m, instruction) ==
    LET operands == get_itype(instruction)
        word == reverse_half(state.reg[operands.d][2])
        r == mem_base(state, m, operands, FALSE, 2, HalfBytes(word), 0, 2)
    IN  IF r.error # "Success" THEN Fault(r.error, state, r.mem)
        ELSE Done(advance_pc(state), r.mem)

(* sw without reverse_word *)
sw_NoReverse(state, m, instruction) ==
    LET operands == get_itype(instruction)
        word == state.reg[operands.d]
        r == mem_base(state, m, operands, FALSE, 4, WordBytes(word), 0, 4)
    IN  IF r.error # "Success" THEN Fault(r.error, state, r.mem)
        ELSE Done(advance_pc(state), r.mem)

sw(state, m, instruction) ==
    LET operands == get_itype(instruction)
        word == reverse_word(state.reg[operands.d])
        r == mem_base(state, m, operands, FALSE, 4, WordBytes(word), 0, 4)
    IN  IF r.error # "Success" THEN Fault(r.error, state, r.mem)
        ELSE Done(advance_pc(state), r.mem)

swl(state, m, instruction) ==
    LET operands == get_itype(instruction)
        word == reverse_half(state.reg[operands.d][1])
        r == mem_base(state, m, operands, FALSE, 2, HalfBytes(word), 0, 1)
    IN  IF r.error # "Success" THEN Fault(r.error, state, r.mem)
        ELSE Done(advance_pc(state), r.mem)

swr(state, m, instruction) ==
    LET operands == get_itype(instruction)
        word == reverse_half(state.reg[operands.d][2])
        r == mem_base(state, m, operands, FALSE, 2, HalfBytes(word), -1, 1)
    IN  IF r.error # "Success" THEN Fault(r.error, state, r.mem)
        ELSE Done(advance_pc(state), r.mem)

-----------------------------------------------------------------------------
(* R-type instructions *)

shift_base(state, m, operands, shift) ==
    LET value == state.reg[operands.s2]
        sel == operands.f % 4
        result == CASE sel = 0 -> Shl32(value, shift)
                    [] sel = 1 -> Shl32(value, shift)
                    [] sel = 2 -> Shr32(value, shift)
                    [] OTHER   -> Sar32(value, shift)
    IN  Done(advance_pc(set_reg(state, operands.d, result)), m)

shift(state, m, operands) == shift_base(state, m, operands, operands.shift)

shift_var(state, m, operands) ==
    shift_base(state, m, operands, state.reg[operands.s1][2] % 32)

(* jr with the alignment check after set_branch_delay *)
jr_CheckAfterDelay(state, m, operands) ==
    LET s1 == IF operands.f % 2 = 1
              THEN set_reg(state, operands.d, Add32(state.pc, U32(8)))
              ELSE state
        val == s1.reg[operands.s1]
        s2 == set_branch_delay(s1, val)
    IN  IF val[2] % 4 # 0 THEN Fault("ExceptionInvalidAlignment", s2, m)
        ELSE Transfer(s2, m, val)

(* jr without the test of the two low bits of the target *)
jr_NoAlignTest(state, m, operands) ==
    LET s1 == IF operands.f % 2 = 1
              THEN set_reg(state, operands.d, Add32(state.pc, U32(8)))
              ELSE state
        val == s1.reg[operands.s1]
    IN  Transfer(set_branch_delay(s1, val), m, val)

jr(state, m, operands) ==
    LET s1 == IF operands.f % 2 = 1
              THEN set_reg(state, operands.d, Add32(state.pc, U32(8)))
              ELSE state
        val == s1.reg[operands.s1]
    IN  IF val[2] % 4 # 0 THEN Fault("ExceptionInvalidAlignment", s1, m)
        ELSE Transfer(set_branch_delay(s1, val), m, val)

(* syscall that moves on to the next instruction before it reports *)
syscall_Advance(state, m, operands) ==
    Fault("ExceptionSystemCall", advance_pc(state), m)

syscall(state, m, operands) == Fault("ExceptionSystemCall", state, m)

breakpoint(state, m, operands) == Fault("ExceptionBreak", state, m)

mfhi(state, m, operands) ==
    Done(advance_pc([state EXCEPT !.reg[operands.d] = state.hi]), m)

mthi(state, m, operands) ==
    Done(advance_pc([state EXCEPT !.hi = state.reg[operands.s1]]), m)

mflo(state, m, operands) ==
    Done(advance_pc([state EXCEPT !.reg[operands.d] = state.lo]), m)

mtlo(state, m, operands) ==
    Done(advance_pc([state EXCEPT !.lo = state.reg[operands.s1]]), m)

(* add_sub with the test for overflow below INT_MIN left out *)
add_sub_NoLowerCheck(state, m, operands) ==
    LET v1 == state.reg[operands.s1]
        v2 == IF BitSet(operands.f, 2) THEN Neg32(state.reg[operands.s2])
                                       ELSE state.reg[operands.s2]
        x == ToInt32(v1)
        y == ToInt32(v2)
    IN  IF operands.f % 2 = 0 /\ (y > 0 /\ x > INT_MAX - y)
        THEN Fault("ExceptionArithmeticOverflow", state, m)
        ELSE Done(advance_pc(set_reg(state, operands.d, Add32(v1, v2))), m)

add_sub(state, m, operands) ==
    LET v1 == state.reg[operands.s1]
        v2 == IF BitSet(operands.f, 2) THEN Neg32(state.reg[operands.s2])
                                       ELSE state.reg[operands.s2]
        x == ToInt32(v1)
        y == ToInt32(v2)
    IN  IF operands.f % 2 = 0
           /\ ((y > 0 /\ x > INT_MAX - y) \/ (y < 0 /\ x < INT_MIN - y))
        THEN Fault("ExceptionArithmeticOverflow", state, m)
        ELSE Done(advance_pc(set_reg(state, operands.d, Add32(v1, v2))), m)

(* the 64-bit product of two unsigned 32-bit values, as <<hi, lo>>, by long
   multiplication on bytes *)
MulTerm(A, B, i, k) == IF k - i \in 0..3 THEN A[i + 1] * B[k - i + 1] ELSE 0

RECURSIVE MulCol(_, _, _, _)
MulCol(A, B, k, carry) ==
    IF k = 8 THEN <<>>
    ELSE LET t == carry + MulTerm(A, B, 0, k) + MulTerm(A, B, 1, k)
                        + MulTerm(A, B, 2, k) + MulTerm(A, B, 3, k)
         IN  <<t % 256>> \o MulCol(A, B, k + 1, t \div 256)

UMul64(a, b) ==
    LET r == MulCol(WordBytes(a), WordBytes(b), 0, 0)
    IN  <<HostWord(SubSeq(r, 5, 8)), HostWord(SubSeq(r, 1, 4))>>

(* (int64_t)(int32_t)a * (int64_t)(int32_t)b as <<hi, lo>> *)
SMul64(a, b) ==
    LET u == UMul64(a, b)
        c1 == IF a[1] >= 32768 THEN b ELSE Zero32
        c2 == IF b[1] >= 32768 THEN a ELSE Zero32
    IN  <<Add32(u[1], Neg32(Add32(c1, c2))), u[2]>>

(* mult that multiplies unsigned whatever the 'function' field *)
mult_Unsigned(state, m, operands) ==
    LET v1 == state.reg[operands.s1]
        v2 == state.reg[operands.s2]
        full == UMul64(v1, v2)
    IN  Done(advance_pc([state EXCEPT !.hi = full[1], !.lo = full[2]]), m)

mult(state, m, operands) ==
    LET v1 == state.reg[operands.s1]
        v2 == state.reg[operands.s2]
        full == IF operands.f % 2 = 1 THEN UMul64(v1, v2) ELSE SMul64(v1, v2)
    IN  Done(advance_pc([state EXCEPT !.hi = full[1], !.lo = full[2]]), m)

(* unsigned a / b and a % b for b # 0, as <<quotient, remainder>>; a value
   of 2^31 or more is divided through its upper 31 bits *)
Nat31(w) == w[1] * 65536 + w[2]

UDivMod32(a, b) ==
    IF b[1] >= 32768
    THEN IF Ult32(a, b) THEN <<Zero32, a>> ELSE <<U32(1), Add32(a, Neg32(b))>>
    ELSE IF a[1] < 32768
    THEN <<FromInt32(Nat31(a) \div Nat31(b)), FromInt32(Nat31(a) % Nat31(b))>>
    ELSE LET H  == Nat31(Shr32(a, 1))
             q2 == FromInt32(H \div Nat31(b))
             r2 == FromInt32(H % Nat31(b))
             rr == Add32(Add32(r2, r2), U32(a[2] % 2))
             ge == ~Ult32(rr, b)
         IN  <<Add32(Add32(q2, q2), U32(IF ge THEN 1 ELSE 0)),
               IF ge THEN Add32(rr, Neg32(b)) ELSE rr>>

(* (int32_t)a / (int32_t)b and (int32_t)a % (int32_t)b, truncating, for
   b # 0 and a # INT_MIN *)
Abs(x) == IF x < 0 THEN -x ELSE x

SDivMod32(a, b) ==
    LET x == ToInt32(a)
        y == ToInt32(b)
        q == IF y = INT_MIN THEN 0
             ELSE IF (x < 0) = (y < 0) THEN Abs(x) \div Abs(y)
             ELSE -(Abs(x) \div Abs(y))
    IN  <<FromInt32(q), FromInt32(x - q * y)>>

(* _div that leaves hi and lo alone when the 'zero' flag is set *)
_div_KeepOnZero(state, m, operands) ==
    LET v1 == state.reg[operands.s1]
        v2 == state.reg[operands.s2]
        zero == v2 = Zero32 \/ v1 = <<32768, 0>>
        qr == IF zero THEN <<state.lo, state.hi>>
              ELSE IF operands.f % 2 = 1 THEN UDivMod32(v1, v2)
              ELSE SDivMod32(v1, v2)
    IN  Done(advance_pc([state EXCEPT !.lo = qr[1], !.hi = qr[2]]), m)

_div(state, m, operands) ==
    LET v1 == state.reg[operands.s1]
        v2 == state.reg[operands.s2]
        zero == v2 = Zero32 \/ v1 = <<32768, 0>>
        qr == IF zero THEN <<Zero32, Zero32>>
              ELSE IF operands.f % 2 = 1 THEN UDivMod32(v1, v2)
              ELSE SDivMod32(v1, v2)
    IN  Done(advance_pc([state EXCEPT !.lo = qr[1], !.hi = qr[2]]), m)

bitwise(state, m, operands) ==
    LET v1 == state.reg[operands.s1]
        v2 == state.reg[operands.s2]
        sel == operands.f % 4
        result == CASE sel = 0 -> And32(v1, v2)
                    [] sel = 1 -> Or32(v1, v2)
                    [] sel = 2 -> Xor32(v1, v2)
                    [] OTHER   -> Not32(Or32(v1, v2))
    IN  Done(advance_pc(set_reg(state, operands.d, result)), m)

slt(state, m, operands) ==
    LET v1 == state.reg[operands.s1]
        v2 == state.reg[operands.s2]
        result == IF operands.f % 2 = 1 THEN Ult32(v1, v2)
                  ELSE ToInt32(v1) < ToInt32(v2)
    IN  Done(advance_pc(set_reg(state, operands.d, U32(IF result THEN 1 ELSE 0))), m)

-----------------------------------------------------------------------------
(* Dispatch *)

(* the handler of each 'function' field; "NULL" is an empty entry *)
rtype_ops ==
    [f \in 0..63 |->
        CASE f \in {0, 2, 3}        -> "shift"
          [] f \in {4, 6, 7}        -> "shift_var"
          [] f \in {8, 9}           -> "jr"
          [] f = 12                 -> "syscall"
          [] f = 13                 -> "breakpoint"
          [] f = 16                 -> "mfhi"
          [] f = 17                 -> "mthi"
          [] f = 18                 -> "mflo"
          [] f = 19                 -> "mtlo"
          [] f \in {24, 25}         -> "mult"
          [] f \in {26, 27}         -> "_div"
          [] f \in {32, 33, 34, 35} -> "add_sub"
          [] f \in {36, 37, 38, 39} -> "bitwise"
          [] f \in {42, 43}         -> "slt"
          [] OTHER                  -> "NULL"]

do_rtype_op(state, m, instruction) ==
    LET operands == get_rtype(instruction)
        rtop == rtype_ops[operands.f]
    IN  CASE rtop = "NULL"       -> Fault("ExceptionInvalidInstruction", state, m)
          [] rtop = "shift"      -> shift(state, m, operands)
          [] rtop = "shift_var"  -> shift_var(state, m, operands)
          [] rtop = "jr"         -> jr(state, m, operands)
          [] rtop = "syscall"    -> syscall(state, m, operands)
          [] rtop = "breakpoint" -> breakpoint(state, m, operands)
          [] rtop = "mfhi"       -> mfhi(state, m, operands)
          [] rtop = "mthi"       -> mthi(state, m, operands)
          [] rtop = "mflo"       -> mflo(state, m, operands)
          [] rtop = "mtlo"       -> mtlo(state, m, operands)
          [] rtop = "mult"       -> mult(state, m, operands)
          [] rtop = "_div"       -> _div(state, m, operands)
          [] rtop = "add_sub"    -> add_sub(state, m, operands)
          [] rtop = "bitwise"    -> bitwise(state, m, operands)
          [] rtop = "slt"        -> slt(state, m, operands)

(* the handler of each opcode; "NULL" is an empty entry *)
operations ==
    [o \in 0..63 |->
        CASE o = 0                  -> "do_rtype_op"
          [] o \in {1, 6, 7}        -> "branch_zero"
          [] o \in {2, 3}           -> "jump"
          [] o \in {4, 5}           -> "branch_var"
          [] o \in {8, 9}           -> "addi"
          [] o \in {10, 11}         -> "slti"
          [] o \in {12, 13, 14}     -> "bitwise_imm"
          [] o = 15                 -> "lui"
          [] o \in {16, 17, 18, 19} -> "copz"
          [] o \in {32, 36}         -> "lb"
          [] o \in {33, 37}         -> "lh"
          [] o = 34                 -> "lwl"
          [] o = 35                 -> "lw"
          [] o = 38                 -> "lwr"
          [] o = 40                 -> "sb"
          [] o = 41                 -> "sh"
          [] o = 42                 -> "swl"
          [] o = 43                 -> "sw"
          [] o = 46                 -> "swr"
          [] o \in {48, 49, 50, 51} -> "lwcz"
          [] o \in {56, 57, 58, 59} -> "swcz"
          [] OTHER                  -> "NULL"]

(* the instruction word mips_cpu_step fetches at pc *)
Fetch(state, m) == reverse_word(HostWord(mips_mem_read(m, state.pc, 4).data))

(* the call through operations[opcode] of mips_cpu_step *)
Dispatch(state, m, instruction, op, ub) ==
    CASE op = "NULL"        -> Fault("ExceptionInvalidInstruction", state, m)
      [] op = "do_rtype_op" -> do_rtype_op(state, m, instruction)
      [] op = "branch_zero" -> branch_zero(state, m, instruction, ub)
      [] op = "jump"        -> jump(state, m, instruction)
      [] op = "branch_var"  -> branch_var(state, m, instruction, ub)
      [] op = "addi"        -> addi(state, m, instruction, ub)
      [] op = "slti"        -> slti(state, m, instruction)
      [] op = "bitwise_imm" -> bitwise_imm(state, m, instruction)
      [] op = "lui"         -> lui(state, m, instruction)
      [] op = "copz"        -> copz(state, m, instruction)
      [] op = "lb"          -> lb(state, m, instruction)
      [] op = "lh"          -> lh(state, m, instruction)
      [] op = "lwl"         -> lwl(state, m, instruction)
      [] op = "lw"          -> lw(state, m, instruction)
      [] op = "lwr"         -> lwr(state, m, instruction)
      [] op = "sb"          -> sb(state, m, instruction)
      [] op = "sh"          -> sh(state, m, instruction)
      [] op = "swl"         -> swl(state, m, instruction)
      [] op = "sw"          -> sw(state, m, instruction)
      [] op = "swr"         -> swr(state, m, instruction)
      [] op = "lwcz"        -> lwcz(state, m, instruction)
      [] op = "swcz"        -> swcz(state, m, instruction)

(* Execute that indexes the table with the low five bits of the opcode *)
Execute_FiveBits(state, m, memresult, ub) ==
    IF memresult.error # "Success" THEN Fault(memresult.error, state, m)
    ELSE Dispatch(state, m, reverse_word(HostWord(memresult.data)),
                  operations[(reverse_word(HostWord(memresult.data))[1] \div 1024) % 32], ub)

(* mips_cpu_step after the fetch: memresult is what mips_mem_read returned *)
Execute(state, m, memresult, ub) ==
    IF memresult.error # "Success" THEN Fault(memresult.error, state, m)
    ELSE Dispatch(state, m, reverse_word(HostWord(memresult.data)),
                  operations[reverse_word(HostWord(memresult.data))[1] \div 1024], ub)

(* mips_cpu_step that fetches from the word that holds pc *)
mips_cpu_step_RoundPc(state, m, ub) ==
    IF state.mem = "NULL" THEN Fault("ErrorInvalidHandle", state, m)
    ELSE Execute(state, m, mips_mem_read(m, <<state.pc[1], state.pc[2] - (state.pc[2] % 4)>>, 4),
                 ub)

(* the number of mips_mem_read calls mips_cpu_step makes to fetch *)
step_reads(state) ==
    IF state.mem = "NULL" THEN 0
    ELSE IF state.pc[2] % 4 # 0 THEN 0
    ELSE 1

mips_cpu_step(state, m, ub) ==
    IF state.mem = "NULL" THEN Fault("ErrorInvalidHandle", state, m)
    ELSE IF state.pc[2] % 4 # 0 THEN Fault("ExceptionInvalidAlignment", state, m)
    ELSE Execute(state, m, mips_mem_read(m, state.pc, 4), ub)

-----------------------------------------------------------------------------
(* The trace output of a call: the messages it hands to debug(), in order.
   Each message is written to the debug callback when one is set, else to the
   debug sink, else to standard output; its text is reduced to its kind *)

debug(state, text) ==
    [to   |-> IF state.debug_handle # "NULL" THEN "debug_handle"
              ELSE IF state.output = "NULL" THEN "stdout" ELSE state.output,
     text |-> text]

(* a message guarded by state->debug > level *)
Above(state, level, text) ==
    IF state.debug > level THEN <<debug(state, text)>> ELSE <<>>

(* debug_exception without its test of the debug level *)
debug_exception_AnyLevel(state, error) ==
    IF error \notin {"Success", "Aborted"} THEN <<debug(state, "Exception")>> ELSE <<>>

debug_exception(state, error) ==
    IF error \notin {"Success", "Aborted"} THEN Above(state, 0, "Exception") ELSE <<>>

(* the handlers that reach set_reg when they succeed *)
SetRegHandlers ==
    {"addi", "slti", "bitwise_imm", "lui", "lb", "lh", "lwl", "lw", "lwr",
     "shift", "shift_var", "add_sub", "bitwise", "slt"}

(* the messages of the handler of a decoded instruction that returned r: the
   name printed by do_rtype_op, the operands printed by the handler once it
   is past its early returns, the register printed by set_reg, and the
   target printed by set_branch_delay *)
handler_debug(state, r, opcode, funct, handler) ==
    (IF opcode = 0 /\ handler # "NULL" THEN Above(state, 1, "name") ELSE <<>>)
    \o (IF handler \notin {"NULL", "jump", "jr", "syscall", "breakpoint"}
           /\ r.error \notin {"ExceptionInvalidInstruction", "ErrorNotImplemented",
                              "ExceptionInvalidAlignment"}
        THEN Above(state, 2, "operands") ELSE <<>>)
    \o (IF \/ r.error = "Success" /\ handler \in SetRegHandlers
           \/ handler = "jr" /\ funct % 2 = 1
           \/ handler = "jump" /\ opcode = 3
        THEN Above(state, 1, "register") ELSE <<>>)
    \o (IF r.taken THEN Above(state, 2, "pcN") ELSE <<>>)

(* the messages of one mips_cpu_step that returned r *)
step_debug(state, r, fetched, opcode, funct) ==
    Above(state, 2, "PC")
    \o (IF fetched /\ operations[opcode] # "NULL"
        THEN (IF opcode > 0 THEN Above(state, 1, "name") ELSE <<>>)
             \o handler_debug(state, r, opcode, funct,
                              IF opcode = 0 THEN rtype_ops[funct]
                                            ELSE operations[opcode])
        ELSE <<>>)
    \o debug_exception(state, r.error)

-----------------------------------------------------------------------------
(* The state container and the public API *)

cpu_empty ==
    [mem          |-> "NULL",
     debug        |-> 0,
     output       |-> "NULL",
     debug_handle |-> "NULL",
     exception    |-> [i \in 0..15 |-> Zero32],
     pc           |-> Zero32,
     pcN          |-> Zero32,
     hi           |-> Zero32,
     lo           |-> Zero32,
     coprocessor  |-> [i \in 0..3 |-> [cop |-> "NULL", lwc |-> "NULL", swc |-> "NULL"]],
     reg          |-> [i \in 0..(NUM_REGS - 1) |-> Zero32]]

(* mips_cpu_create without the assignment to pcN *)
mips_cpu_create_NoPcN(memh) ==
    [cpu_empty EXCEPT !.mem = memh]

mips_cpu_create(memh) ==
    [cpu_empty EXCEPT !.mem = memh, !.pcN = U32(4)]

(* mips_cpu_reset without the assignment to pcN after the structure is cleared *)
mips_cpu_reset_NoPcN(state) ==
    [error |-> "Success",
     state |-> [cpu_empty EXCEPT !.mem = state.mem, !.debug = state.debug,
                                 !.debug_handle = state.debug_handle]]

mips_cpu_reset(state) ==
    [error |-> "Success",
     state |-> [cpu_empty EXCEPT !.mem = state.mem, !.debug = state.debug,
                                 !.debug_handle = state.debug_handle,
                                 !.pcN = U32(4)]]

(* mips_cpu_get_register that hands out the stored value of every register *)
mips_cpu_get_register_Stored(state, index) ==
    IF index >= NUM_REGS THEN [error |-> "ErrorInvalidArgument", value |-> Zero32]
    ELSE [error |-> "Success", value |-> state.reg[index]]

mips_cpu_get_register(state, index) ==
    IF index >= NUM_REGS THEN [error |-> "ErrorInvalidArgument", value |-> Zero32]
    ELSE [error |-> "Success",
          value |-> IF index # 0 THEN state.reg[index] ELSE Zero32]

mips_cpu_set_register(state, index, value) ==
    IF index >= NUM_REGS THEN [error |-> "ErrorInvalidArgument", state |-> state]
    ELSE [error |-> "Success", state |-> set_reg(state, index, value)]

(* mips_cpu_set_pc that leaves the pending next address alone *)
mips_cpu_set_pc_KeepNext(state, pc) ==
    [error |-> "Success", state |-> [state EXCEPT !.pc = pc]]

mips_cpu_set_pc(state, pc) ==
    [error |-> "Success",
     state |-> [state EXCEPT !.pc = pc, !.pcN = Add32(pc, U32(4))]]

mips_cpu_set_debug_level(state, level, dest) ==
    [error |-> "Success",
     state |-> [state EXCEPT !.debug = level, !.output = dest]]

mips_cpu_set_coprocessor(state, index, cp) ==
    IF index > 3 THEN [error |-> "ErrorInvalidArgument", state |-> state]
    ELSE [error |-> "Success", state |-> [state EXCEPT !.coprocessor[index] = cp]]

(* exception is the number of a mips_error: the exceptions are 0x2000 to
   0x200F, mips_ExceptionCoprocessorUnusable 0x2006 and
   mips_ExceptionSystemCall 0x2007 *)
mips_cpu_set_exception_handler(state, exception, handler) ==
    IF ((exception % 65536) \div 16) * 16 # 8192
    THEN [error |-> "ErrorInvalidArgument", state |-> state]
    ELSE [error |-> "Success",
          state |-> [state EXCEPT !.exception[exception % 16] = handler]]

mips_cpu_get_pc(state) == [error |-> "Success", value |-> state.pc]

-----------------------------------------------------------------------------
(* The test bed: instruction words and memory images *)

RType(s1, s2, d, shamt, f) == <<s1 * 32 + s2, d * 2048 + shamt * 64 + f>>
IType(o, s, d, imm) == <<o * 1024 + s * 32 + d, imm>>
JType(o, target) == <<o * 1024 + (target \div 65536), target % 65536>>

(* byte k (0 the most significant) of word w, as it lies in memory *)
ByteOf(w, k) ==
    CASE k = 0 -> w[1] \div 256
      [] k = 1 -> w[1] % 256
      [] k = 2 -> w[2] \div 256
      [] OTHER -> w[2] % 256

(* the RAM after the words of prog have been written from address 0 *)
Image(prog) ==
    [a \in 0..(MemSize - 1) |->
        IF a \div 4 < Len(prog) THEN ByteOf(prog[(a \div 4) + 1], a % 4) ELSE 0]

(* one instruction of every handler, on registers $1 and $2 *)
WideSet ==
    {RType(1, 2, 3, 0, f) : f \in {32, 33, 34, 35, 36, 37, 38, 39, 42, 43}}
    \cup {RType(1, 2, 0, 0, 32), RType(1, 2, 0, 0, 24), RType(1, 2, 0, 0, 25),
          RType(1, 2, 0, 0, 26), RType(1, 2, 0, 0, 27)}
    \cup {RType(0, 2, 3, 4, f) : f \in {0, 2, 3}}
    \cup {RType(1, 2, 3, 0, f) : f \in {4, 6, 7}}
    \cup {RType(1, 0, 0, 0, 8), RType(1, 0, 3, 0, 9), RType(1, 0, 1, 0, 9),
          RType(1, 0, 0, 0, 9)}
    \cup {RType(0, 0, 0, 0, 12), RType(1, 2, 3, 4, 12), RType(0, 0, 0, 0, 13),
          RType(2, 1, 3, 31, 13)}
    \cup {RType(0, 0, 3, 0, 16), RType(0, 0, 0, 0, 16), RType(1, 0, 0, 0, 17),
          RType(0, 0, 3, 0, 18), RType(0, 0, 0, 0, 18), RType(1, 0, 0, 0, 19)}
    \cup {RType(1, 2, 3, 0, f) : f \in {1, 5, 10, 20, 40, 63}}
    \cup {IType(1, 1, rt, 2) : rt \in {0, 1, 16, 17, 2, 31}}
    \cup {IType(o, 1, 0, 2) : o \in {6, 7}} \cup {IType(6, 1, 1, 2)}
    \cup {IType(o, 1, 2, 2) : o \in {4, 5}}
    \cup {IType(o, 1, 3, imm) : o \in {8, 9}, imm \in {1, 32767, 32768, 65535}}
    \cup {IType(8, 1, 0, 1)}
    \cup {IType(o, 1, 3, 65535) : o \in {10, 11, 12, 13, 14, 15}}
    \cup {IType(o, 0, 0, 0) : o \in {16, 49, 58}}
    \cup {IType(o, 1, 3, 4) : o \in {32, 33, 34, 35, 36, 37, 38, 40, 41, 42, 43, 46}}
    \cup {IType(o, 1, 3, 0) : o \in {20, 39, 44, 47, 52, 63}}
    \cup {JType(2, 3), JType(3, 3)}

(* transfers, and what may sit in their delay slot *)
BranchSet ==
    {JType(2, 3), JType(3, 3), JType(2, 1), RType(1, 0, 0, 0, 8),
     RType(1, 0, 3, 0, 9), IType(4, 1, 2, 2), IType(5, 1, 2, 2),
     IType(1, 1, 0, 2), IType(1, 1, 1, 2), IType(1, 1, 16, 2), IType(1, 1, 17, 2),
     IType(6, 1, 0, 2), IType(7, 1, 0, 2)}

SlotSet ==
    {Zero32, IType(9, 1, 1, 1), JType(2, 0), JType(3, 3), RType(0, 0, 0, 0, 12),
     RType(1, 2, 3, 0, 32), IType(5, 0, 0, 3)}

(* shifts by 0 and ADDU rx,rx,$0, the latter also after MFHI $0 *)
IdentitySet ==
    {<<RType(0, 2, d, 0, f)>> : d \in {3, 2}, f \in {0, 2, 3}}
    \cup {<<RType(1, 0, 1, 0, 33)>>,
          <<RType(1, 0, 0, 0, 17), RType(0, 0, 0, 0, 16), RType(1, 0, 1, 0, 33)>>}

(* ORI $1,$1,0x86F1, then a store of $1 and a load into $3 of the same
   width at the same address: <<store, loads, addresses>> *)
StoreLoadSet ==
    UNION {{<<IType(13, 1, 1, 34545), IType(st[1], 0, 1, a), IType(ld, 0, 3, a)>> :
               ld \in st[2], a \in st[3]} :
           st \in {<<43, {35}, {16}>>, <<41, {33, 37}, {16, 18}>>,
                    <<40, {32, 36}, {16, 17, 19}>>}}

(* programs that load a register with ORI, move it to hi or lo and on to $0 *)
HiLoSet ==
    {<<IType(13, 0, 1, 34545), RType(1, 0, 0, 0, 17), RType(0, 0, 0, 0, 16)>>,
     <<IType(13, 0, 1, 34545), RType(1, 0, 0, 0, 19), RType(0, 0, 0, 0, 18)>>,
     <<IType(13, 0, 1, 34545), RType(1, 0, 0, 0, 17), RType(1, 0, 0, 0, 19)>>}

Programs ==
    {<<i>> : i \in WideSet}
    \cup {<<b, d>> : b \in BranchSet, d \in SlotSet}
    \cup {<<RType(1, 0, 0, 0, 17), RType(0, 0, 0, 0, 16), RType(0, 0, 3, 0, 33)>>,
          <<RType(1, 0, 0, 0, 19), RType(0, 0, 0, 0, 18), RType(0, 0, 3, 0, 33)>>}
    \cup IdentitySet
    \cup StoreLoadSet
    \cup HiLoSet

(* the arguments the test bed passes *)
Values ==
    {Zero32, U32(1), U32(8), <<32767, 65535>>, <<32768, 0>>, <<65535, 65535>>}

RegArgs == {0, 1, 2, NUM_REGS}

(* the (index, value) pairs of the set_register calls: every value for the
   registers the programs read, one value for $0 and for the bad index *)
RegCalls ==
    {<<i, v>> \in RegArgs \X Values : i \in {1, 2} \/ v = <<65535, 65535>>}

PcArgs == {Zero32, U32(8), U32(2), <<65535, 65532>>}

-----------------------------------------------------------------------------
(* The state machine: the test bed's calls on one CPU object *)

NoCall(name, e) ==
    [op |-> name, error |-> e, fetched |-> FALSE, instr |-> Zero32,
     taken |-> FALSE, target |-> Zero32, index |-> 0, value |-> Zero32,
     trace |-> <<>>, stalled |-> FALSE]

Last3(s) == IF Len(s) > 3 THEN SubSeq(s, Len(s) - 2, Len(s)) ELSE s

Init ==
    /\ cpu = mips_cpu_create("ram")
    /\ mem \in {Image(p) : p \in Programs}
    /\ last = NoCall("create", "Success")
    /\ pre = [cpu |-> cpu, mem |-> mem]
    /\ hist = <<>>
    /\ steps = 0
    /\ calls = 0

(* one mips_cpu_step call that returned r; fetched tells whether it got as
   far as decoding an instruction.  last.stalled tells that a step has
   returned a fault and no step has succeeded, nor mips_cpu_set_pc or
   mips_cpu_reset been called, since; an entry of hist has it as retry *)
StepResult(r, fetched) ==
    /\ cpu' = r.state
    /\ mem' = r.mem
    /\ last' = [NoCall("step", r.error) EXCEPT
                  !.fetched = fetched,
                  !.instr = IF fetched THEN Fetch(cpu, mem) ELSE Zero32,
                  !.taken = r.taken,
                  !.target = r.target,
                  !.trace = IF fetched
                            THEN step_debug(cpu, r, TRUE, Fetch(cpu, mem)[1] \div 1024,
                                            Fetch(cpu, mem)[2] % 64)
                            ELSE step_debug(cpu, r, FALSE, 0, 0),
                  !.stalled = r.error # "Success"]
    /\ hist' = IF r.error = "Success"
               THEN Last3(Append(hist, [pc |-> cpu.pc, pcN |-> cpu.pcN,
                                        taken |-> r.taken, target |-> r.target,
                                        instr |-> Fetch(cpu, mem),
                                        reg |-> cpu.reg,
                                        retry |-> last.stalled]))
               ELSE hist

(* the process has not been ended by a trap *)
Running == last.error # "Aborted"

Step ==
    /\ Running
    /\ steps < MaxSteps
    /\ \E ub \in SignedOverflow :
          StepResult(mips_cpu_step(cpu, mem, ub),
                     cpu.pc[2] % 4 = 0 /\ mips_mem_read(mem, cpu.pc, 4).error = "Success")
    /\ pre' = [cpu |-> cpu, mem |-> mem]
    /\ steps' = steps + 1
    /\ UNCHANGED calls

SetRegister(i, v) ==
    /\ Running
    /\ calls < MaxCalls
    /\ LET r == mips_cpu_set_register(cpu, i, v)
       IN  /\ cpu' = r.state
           /\ last' = [NoCall("set_register", r.error) EXCEPT
                          !.index = i, !.value = v,
                          !.stalled = last.stalled,
                          !.trace = IF r.error = "Success"
                                    THEN Above(cpu, 1, "register") ELSE <<>>]
    /\ pre' = [cpu |-> cpu, mem |-> mem]
    /\ calls' = calls + 1
    /\ UNCHANGED <<mem, hist, steps>>

SetPc(v) ==
    /\ Running
    /\ calls < MaxCalls
    /\ LET r == mips_cpu_set_pc(cpu, v)
       IN  /\ cpu' = r.state
           /\ last' = [NoCall("set_pc", r.error) EXCEPT !.value = v]
    /\ pre' = [cpu |-> cpu, mem |-> mem]
    /\ hist' = <<>>
    /\ calls' = calls + 1
    /\ UNCHANGED <<mem, steps>>

Reset ==
    /\ Running
    /\ calls < MaxCalls
    /\ LET r == mips_cpu_reset(cpu)
       IN  /\ cpu' = r.state
           /\ last' = NoCall("reset", r.error)
    /\ pre' = [cpu |-> cpu, mem |-> mem]
    /\ hist' = <<>>
    /\ calls' = calls + 1
    /\ UNCHANGED <<mem, steps>>

Next ==
    \/ Step
    \/ \E c \in RegCalls : SetRegister(c[1], c[2])
    \/ \E v \in PcArgs : SetPc(v)
    \/ Reset

Spec == Init /\ [][Next]_vars

(* The same calls with every mips_cpu_set_pc argument a multiple of four *)
AlignedPcArgs == {v \in PcArgs : v[2] % 4 = 0}

NextAligned ==
    \/ Step
    \/ \E c \in RegCalls : SetRegister(c[1], c[2])
    \/ \E v \in AlignedPcArgs : SetPc(v)
    \/ Reset

SpecAligned == Init /\ [][NextAligned]_vars

(* The arithmetic test bed: registers 1 and 2 are set to boundary values with
   mips_cpu_set_register before the first step, and the memory holds one ADD,
   ADDI, SUB, DIV or DIVU *)
ArithValues ==
    {Zero32, U32(1), U32(7), <<32767, 65535>>, <<32768, 0>>, <<65535, 65535>>}

ArithPrograms ==
    {<<RType(1, 2, d, 0, 32)>> : d \in {3, 1, 0}}
    \cup {<<IType(8, 1, 3, imm)>> : imm \in {1, 32767, 32768, 65535}}
    \cup {<<IType(8, 1, 1, 65535)>>, <<IType(8, 1, 0, 32767)>>}
    \cup {<<RType(1, 2, 0, 0, 26)>>, <<RType(1, 2, 0, 0, 27)>>}
    \cup {<<RType(1, 2, 3, 0, 34)>>, <<RType(1, 2, 1, 0, 34)>>}

InitArith ==
    /\ \E a \in ArithValues, b \in ArithValues :
          LET c1 == mips_cpu_set_register(mips_cpu_create("ram"), 1, a).state
              c2 == mips_cpu_set_register(c1, 2, b)
          IN  /\ cpu = c2.state
              /\ mem \in {Image(p) : p \in ArithPrograms}
              /\ last = [NoCall("set_register", c2.error) EXCEPT
                            !.index = 2, !.value = b]
              /\ pre = [cpu |-> c1, mem |-> mem]
    /\ hist = <<>>
    /\ steps = 0
    /\ calls = 0

SpecArith == InitArith /\ [][Next]_vars

(* The debug test bed: the debug level and the debug sink are set with
   mips_cpu_set_debug_level before the first step, and the memory holds a
   transfer and its delay slot *)
DebugArgs == {<<0, "NULL">>, <<1, "file">>, <<3, "file">>}

InitDebug ==
    /\ \E a \in DebugArgs :
          LET c1 == mips_cpu_create("ram")
              c2 == mips_cpu_set_debug_level(c1, a[1], a[2])
          IN  /\ cpu = c2.state
              /\ mem \in {Image(<<b, d>>) : b \in BranchSet, d \in SlotSet}
              /\ last = NoCall("set_debug_level", c2.error)
              /\ pre = [cpu |-> c1, mem |-> mem]
    /\ hist = <<>>
    /\ steps = 0
    /\ calls = 0

SpecDebug == InitDebug /\ [][Next]_vars

(* The coprocessor test bed: a coprocessor whose callables all succeed, or
   all fail with Break, is installed in slot 0 or 2 with
   mips_cpu_set_coprocessor before the first step, and the memory holds an
   ORI that loads an address and a COPz, LWCz or SWCz on slot 0 or 2 *)
CopArgs ==
    {<<z, [cop |-> h, lwc |-> h, swc |-> h]>> : z \in {0, 2}, h \in {"ok", "ExceptionBreak"}}

CopPrograms ==
    {<<IType(13, 0, 1, a), IType(o, 1, 2, 0)>> :
        a \in {16, 18, 64}, o \in {48, 50, 56, 58}}
    \cup {<<IType(13, 0, 1, 16), IType(o, 1, 2, 4)>> : o \in {16, 18, 56}}

InitCop ==
    /\ \E a \in CopArgs :
          LET c1 == mips_cpu_create("ram")
              c2 == mips_cpu_set_coprocessor(c1, a[1], a[2])
          IN  /\ cpu = c2.state
              /\ mem \in {Image(p) : p \in CopPrograms}
              /\ last = [NoCall("set_coprocessor", c2.error) EXCEPT !.index = a[1]]
              /\ pre = [cpu |-> c1, mem |-> mem]
    /\ hist = <<>>
    /\ steps = 0
    /\ calls = 0

SpecCop == InitCop /\ [][Next]_vars

(* The decoding test bed: the memory holds one word of every opcode, or one
   word of opcode 0 with every 'function' field *)
DecodePrograms ==
    {<<IType(o, 1, 3, 4)>> : o \in 1..63}
    \cup {<<RType(1, 2, 3, 0, f)>> : f \in 0..63}

InitDecode ==
    /\ cpu = mips_cpu_create("ram")
    /\ mem \in {Image(p) : p \in DecodePrograms}
    /\ last = NoCall("create", "Success")
    /\ pre = [cpu |-> cpu, mem |-> mem]
    /\ hist = <<>>
    /\ steps = 0
    /\ calls = 0

SpecDecode == InitDecode /\ [][Next]_vars

(* The delay-slot test bed: $1 and $2 are set, and the memory holds a taken
   jump or branch to address 12 with, in its delay slot, ADD $3,$1,$2,
   LW $3,0($1) or JR $1 *)
SlotValues == {Zero32, U32(1), U32(2), U32(8), <<32767, 65535>>}

SlotPrograms ==
    {<<b, d>> : b \in {JType(2, 3), JType(3, 3), IType(4, 0, 0, 2)},
                d \in {RType(1, 2, 3, 0, 32), IType(35, 1, 3, 0), RType(1, 0, 0, 0, 8)}}

InitSlot ==
    /\ \E a \in SlotValues, b \in SlotValues :
          LET c1 == mips_cpu_set_register(mips_cpu_create("ram"), 1, a).state
              c2 == mips_cpu_set_register(c1, 2, b)
          IN  /\ cpu = c2.state
              /\ mem \in {Image(p) : p \in SlotPrograms}
              /\ last = [NoCall("set_register", c2.error) EXCEPT
                            !.index = 2, !.value = b]
              /\ pre = [cpu |-> c1, mem |-> mem]
    /\ hist = <<>>
    /\ steps = 0
    /\ calls = 0

SpecSlot == InitSlot /\ [][Next]_vars

(* The memory test bed: $1 holds a base address and $2 a value, and the
   memory holds one load or store of $2 at 4($1) or -1($1), followed by the
   word 0x86F1A5C3 *)
MemBases ==
    {Zero32, U32(1), U32(2), U32(3), U32(4), U32(58), U32(60), <<65535, 65535>>}

MemData == {<<4660, 22136>>, <<65535, 32769>>}

MemPrograms ==
    {<<IType(o, 1, 2, imm), <<34545, 42435>>>> :
        o \in {32, 33, 34, 35, 36, 37, 38, 40, 41, 42, 43, 46}, imm \in {4, 65535}}

InitMem ==
    /\ \E a \in MemBases, b \in MemData :
          LET c1 == mips_cpu_set_register(mips_cpu_create("ram"), 1, a).state
              c2 == mips_cpu_set_register(c1, 2, b)
          IN  /\ cpu = c2.state
              /\ mem \in {Image(p) : p \in MemPrograms}
              /\ last = [NoCall("set_register", c2.error) EXCEPT
                            !.index = 2, !.value = b]
              /\ pre = [cpu |-> c1, mem |-> mem]
    /\ hist = <<>>
    /\ steps = 0
    /\ calls = 0

SpecMem == InitMem /\ [][Next]_vars

(* The branch test bed: $1 and $2 are set, and the memory holds one
   conditional branch on them, forwards by 2 words or backwards by 2, at
   address 0 or after a NOP at address 4 *)
BranchValues == {Zero32, U32(1), <<32768, 0>>}

BranchWords ==
    {IType(o, 1, 2, imm) : o \in {4, 5}, imm \in {2, 65534}}
    \cup {IType(o, 1, 0, imm) : o \in {6, 7}, imm \in {2, 65534}}
    \cup {IType(1, 1, rt, imm) : rt \in {0, 1, 16, 17}, imm \in {2, 65534}}

BranchPrograms == {<<b>> : b \in BranchWords} \cup {<<Zero32, b>> : b \in BranchWords}

InitBranch ==
    /\ \E a \in BranchValues, b \in BranchValues :
          LET c1 == mips_cpu_set_register(mips_cpu_create("ram"), 1, a).state
              c2 == mips_cpu_set_register(c1, 2, b)
          IN  /\ cpu = c2.state
              /\ mem \in {Image(p) : p \in BranchPrograms}
              /\ last = [NoCall("set_register", c2.error) EXCEPT
                            !.index = 2, !.value = b]
              /\ pre = [cpu |-> c1, mem |-> mem]
    /\ hist = <<>>
    /\ steps = 0
    /\ calls = 0

SpecBranch == InitBranch /\ [][Next]_vars

(* The multiply and divide test bed: $1 and $2 are set, and the memory
   holds MULT or MULTU on them, followed by DIV or DIVU on them or by MFHI
   and MFLO *)
MulValues == ArithValues \cup {<<34545, 42435>>, <<4660, 22136>>}

MulDivPrograms ==
    {<<RType(1, 2, 0, 0, 24), RType(1, 2, 0, 0, 26)>>,
     <<RType(1, 2, 0, 0, 25), RType(1, 2, 0, 0, 27)>>,
     <<RType(1, 2, 0, 0, 24), RType(0, 0, 3, 0, 16), RType(0, 0, 1, 0, 18)>>,
     <<RType(1, 2, 0, 0, 25), RType(0, 0, 3, 0, 16), RType(0, 0, 1, 0, 18)>>}

InitMulDiv ==
    /\ \E a \in MulValues, b \in MulValues :
          LET c1 == mips_cpu_set_register(mips_cpu_create("ram"), 1, a).state
              c2 == mips_cpu_set_register(c1, 2, b)
          IN  /\ cpu = c2.state
              /\ mem \in {Image(p) : p \in MulDivPrograms}
              /\ last = [NoCall("set_register", c2.error) EXCEPT
                            !.index = 2, !.value = b]
              /\ pre = [cpu |-> c1, mem |-> mem]
    /\ hist = <<>>
    /\ steps = 0
    /\ calls = 0

SpecMulDiv == InitMulDiv /\ [][Next]_vars

-----------------------------------------------------------------------------
(* Properties *)

(* the architectural state of a CPU object *)
Arch(c) == <<c.reg, c.hi, c.lo, c.pc, c.pcN>>

StepDone == last.op = "step" /\ last.error = "Success"
StepFault == last.op = "step" /\ last.error \notin {"Success", "Aborted"}

(* C1: whenever mips_cpu_step returns a fault, all 32 registers, hi, lo, pc
   and pcN are what they were before the call *)
C1_FaultKeepsArchState == StepFault => Arch(cpu) = Arch(pre.cpu)

(* C2: whenever mips_cpu_step returns a fault, mips_cpu_get_pc reports the pc
   of before the call, and a step taken at once returns the same fault *)
C2_FaultKeepsPcAndRepeats ==
    StepFault =>
        /\ mips_cpu_get_pc(cpu) = mips_cpu_get_pc(pre.cpu)
        /\ \A ub \in SignedOverflow : mips_cpu_step(cpu, mem, ub).error = last.error

(* a step faulted and nevertheless changed a register (JALR with a
   misaligned target) *)
C2_Witness == StepFault /\ cpu.reg # pre.cpu.reg

(* C3: after any sequence of set_register, set_pc, reset and step calls,
   mips_cpu_get_register with index 0 succeeds and yields 0 *)
C3_GetRegisterZero ==
    mips_cpu_get_register(cpu, 0) = [error |-> "Success", value |-> Zero32]

(* the stored register 0 is not 0 (after MFHI $0 or MFLO $0), and the API
   hides it *)
C3_Witness == cpu.reg[0] # Zero32

(* C4: in every reachable state the stored general register 0 holds 0,
   whichever instruction was given 0 as its destination *)
C4_StoredRegisterZero == cpu.reg[0] = Zero32

(* what the last step executed, when it fetched an instruction *)
Opcode == last.instr[1] \div 1024
Funct == last.instr[2] % 64
Rt == last.instr[1] % 32
Stepped == last.op = "step" /\ last.fetched

(* the step entered with no delayed transfer pending *)
NoTransferPending == pre.cpu.pcN = Add32(pre.cpu.pc, U32(4))

(* C5 as stated: in a run of successful steps, a taken branch or jump at p
   with target t is followed by the step at p + 4 and then by the step at t *)
C5_DelaySlotThenTarget ==
    \A i \in 1..Len(hist) :
        hist[i].taken =>
            /\ (i + 1 <= Len(hist) => hist[i + 1].pc = Add32(hist[i].pc, U32(4)))
            /\ (i + 2 <= Len(hist) => hist[i + 2].pc = hist[i].target)

(* C5, amended: the same for a taken branch or jump that does not itself sit
   in the delay slot of a taken transfer (pcN = p + 4 when it is executed) *)
C5_DelaySlotThenTargetOutsideSlot ==
    \A i \in 1..Len(hist) :
        (hist[i].taken /\ hist[i].pcN = Add32(hist[i].pc, U32(4))) =>
            /\ (i + 1 <= Len(hist) => hist[i + 1].pc = Add32(hist[i].pc, U32(4)))
            /\ (i + 2 <= Len(hist) => hist[i + 2].pc = hist[i].target)

(* a transfer outside a delay slot, its delay slot and the instruction at a
   target that is not the fall-through address have been executed *)
C5_Witness ==
    /\ Len(hist) = 3
    /\ hist[1].taken
    /\ hist[1].pcN = Add32(hist[1].pc, U32(4))
    /\ hist[2].pc = Add32(hist[1].pc, U32(4))
    /\ hist[3].pc = hist[1].target
    /\ hist[1].target # Add32(hist[1].pc, U32(8))

(* C6 as stated: a successful step sets pc to the previous pcN, and pcN to
   pcN + 4 or, for a taken transfer, to its target; and it never leaves pc
   unchanged *)
C6_PcUpdateAndPcChanges ==
    StepDone =>
        /\ cpu.pc = pre.cpu.pcN
        /\ (last.taken => cpu.pcN = last.target)
        /\ (~last.taken => cpu.pcN = Add32(pre.cpu.pcN, U32(4)))
        /\ cpu.pc # pre.cpu.pc

(* C6, amended: a successful step sets pc to the previous pcN, and pcN to
   pcN + 4 or, for a taken transfer, to its target *)
C6_PcUpdate ==
    StepDone =>
        /\ cpu.pc = pre.cpu.pcN
        /\ (last.taken => cpu.pcN = last.target)
        /\ (~last.taken => cpu.pcN = Add32(pre.cpu.pcN, U32(4)))

(* a successful straight-line step in the delay slot of a jump to that very
   slot: pc is the previous pcN and is unchanged *)
C6_Witness ==
    /\ StepDone
    /\ ~last.taken
    /\ cpu.pc = pre.cpu.pc
    /\ cpu.pcN = Add32(pre.cpu.pcN, U32(4))

(* C7: after a successful BLTZAL or BGEZAL at p register 31 holds p + 8,
   taken or not; BLTZ and BGEZ leave register 31 unchanged *)
C7_BranchAndLink ==
    (StepDone /\ last.fetched /\ Opcode = 1) =>
        /\ (Rt \in {16, 17} => cpu.reg[31] = Add32(pre.cpu.pc, U32(8)))
        /\ (Rt \in {0, 1} => cpu.reg[31] = pre.cpu.reg[31])

(* C8: after a successful JAL at p register 31 holds p + 8; J leaves
   register 31 unchanged *)
C8_JumpAndLink ==
    (StepDone /\ last.fetched) =>
        /\ (Opcode = 3 => cpu.reg[31] = Add32(pre.cpu.pc, U32(8)))
        /\ (Opcode = 2 => cpu.reg[31] = pre.cpu.reg[31])

(* a JAL away from address 0 has written register 31 *)
C8_Witness ==
    /\ StepDone /\ last.fetched /\ Opcode = 3
    /\ pre.cpu.pc # Zero32
    /\ cpu.reg[31] # pre.cpu.reg[31]

(* the instruction is one of J, JAL, JR, JALR, BEQ, BNE, BLEZ, BGTZ and the
   opcode-1 branches *)
IsBranchOrJump == Opcode \in 1..7 \/ (Opcode = 0 /\ Funct \in {8, 9})

(* C9 as stated: a successful step at a 4-aligned p of an instruction that is
   not a branch or jump leaves pc = p + 4 *)
C9_StraightLineAdvances ==
    (StepDone /\ last.fetched /\ pre.cpu.pc[2] % 4 = 0 /\ ~IsBranchOrJump) =>
        cpu.pc = Add32(pre.cpu.pc, U32(4))

(* C9, amended: the same when no delayed transfer is pending on entry
   (pcN = p + 4) *)
C9_StraightLineAdvancesNoPending ==
    (StepDone /\ last.fetched /\ pre.cpu.pc[2] % 4 = 0 /\ ~IsBranchOrJump
       /\ NoTransferPending) =>
        cpu.pc = Add32(pre.cpu.pc, U32(4))

(* a straight-line instruction away from address 0 has been executed with no
   transfer pending *)
C9_Witness ==
    /\ StepDone /\ last.fetched /\ ~IsBranchOrJump
    /\ NoTransferPending
    /\ pre.cpu.pc # Zero32
    /\ cpu.pc = Add32(pre.cpu.pc, U32(4))

(* the operands and the destination of the ADD, ADDU, ADDI or ADDIU the last
   step executed *)
IsAdd == Stepped /\ (Opcode = 8 \/ (Opcode = 0 /\ Funct = 32))
AddA == pre.cpu.reg[(last.instr[1] \div 32) % 32]
AddB == IF Opcode \in {8, 9} THEN SignExt16(last.instr[2]) ELSE pre.cpu.reg[Rt]
AddDest == IF Opcode \in {8, 9} THEN Rt ELSE last.instr[2] \div 2048

(* the exact signed sum a + b in units of 2^16 and below: the upper part,
   with the carry of the lower halves, and the lower 16 bits *)
SignedHi(w) == IF w[1] >= 32768 THEN w[1] - 65536 ELSE w[1]
SumTop(a, b) == SignedHi(a) + SignedHi(b) + ((a[2] + b[2]) \div 65536)
SumFits(a, b) == SumTop(a, b) \in -32768..32767
SumWord(a, b) == FromInt32(SumTop(a, b) * 65536 + ((a[2] + b[2]) % 65536))

(* C10: ADD and ADDI return ArithmeticOverflow exactly when the signed sum
   a + b is outside [-2^31, 2^31 - 1], and then the destination register and
   pc are unchanged; otherwise they succeed and the destination holds a + b
   (register 0 as a destination reads 0) *)
C10_AddOverflow ==
    IsAdd =>
        IF SumFits(AddA, AddB)
        THEN /\ last.error = "Success"
             /\ mips_cpu_get_register(cpu, AddDest).value =
                    IF AddDest = 0 THEN Zero32 ELSE SumWord(AddA, AddB)
        ELSE /\ last.error = "ExceptionArithmeticOverflow"
             /\ cpu.reg[AddDest] = pre.cpu.reg[AddDest]
             /\ cpu.pc = pre.cpu.pc

(* an ADD of two negative values has overflowed below -2^31 *)
C10_Witness ==
    /\ IsAdd /\ Opcode = 0
    /\ ~SumFits(AddA, AddB)
    /\ AddA[1] >= 32768 /\ AddB[1] >= 32768
    /\ last.error = "ExceptionArithmeticOverflow"

(* the rd and shamt fields of the instruction the last step executed *)
Rd == last.instr[2] \div 2048
Shamt == (last.instr[2] \div 64) % 32
Rs == (last.instr[1] \div 32) % 32

(* C11: a successful SLL, SRL or SRA with shamt = 0 leaves in rd the value rt
   had, and a successful ADDU rx,rx,$0 leaves rx as it was *)
C11_Identities ==
    (StepDone /\ last.fetched /\ Opcode = 0) =>
        /\ (Funct \in {0, 2, 3} /\ Shamt = 0 /\ Rd # 0
               => cpu.reg[Rd] = pre.cpu.reg[Rt])
        /\ (Funct = 33 /\ Rs = Rd /\ Rt = 0
               => cpu.reg[Rd] = pre.cpu.reg[Rd])

(* the opcode, the rt field and the effective address of the instruction of
   a recorded step *)
OpcodeOf(h) == h.instr[1] \div 1024
RtOf(h) == h.instr[1] % 32
AddrOf(h) == Add32(h.reg[(h.instr[1] \div 32) % 32],
                   IF h.instr[2] >= 32768 THEN <<65535, h.instr[2]>>
                                          ELSE <<0, h.instr[2]>>)

(* the width in bytes of the access of a load or store opcode *)
WidthOf(o) == IF o \in {35, 43} THEN 4 ELSE IF o \in {33, 37, 41} THEN 2 ELSE 1

(* st is a store and ld a load of the same width *)
SameWidth(st, ld) ==
    \/ OpcodeOf(st) = 43 /\ OpcodeOf(ld) = 35
    \/ OpcodeOf(st) = 41 /\ OpcodeOf(ld) \in {33, 37}
    \/ OpcodeOf(st) = 40 /\ OpcodeOf(ld) \in {32, 36}

(* what a load with opcode o yields after a store of v of the same width *)
Reloaded(o, v) ==
    CASE o = 35 -> v
      [] o = 33 -> IF v[2] >= 32768 THEN <<65535, v[2]>> ELSE <<0, v[2]>>
      [] o = 37 -> <<0, v[2]>>
      [] o = 32 -> IF v[2] % 256 >= 128 THEN <<65535, 65280 + (v[2] % 256)>>
                                        ELSE <<0, v[2] % 256>>
      [] o = 36 -> <<0, v[2] % 256>>

(* the last two successful steps were a store and then a load of the same
   width at the same in-range address, aligned for the access *)
StoreThenLoad ==
    /\ StepDone
    /\ Len(hist) >= 2
    /\ SameWidth(hist[Len(hist) - 1], hist[Len(hist)])
    /\ AddrOf(hist[Len(hist) - 1]) = AddrOf(hist[Len(hist)])
    /\ AddrOf(hist[Len(hist)])[1] = 0
    /\ AddrOf(hist[Len(hist)])[2] + WidthOf(OpcodeOf(hist[Len(hist)])) <= MemSize
    /\ AddrOf(hist[Len(hist)])[2] % WidthOf(OpcodeOf(hist[Len(hist)])) = 0

(* C12: SW then LW at the same aligned in-range address yields the value
   stored; SH then LH/LHU and SB then LB/LBU yield its low 16 or 8 bits,
   sign- or zero-extended *)
C12_StoreLoadRoundTrip ==
    (StoreThenLoad /\ RtOf(hist[Len(hist)]) # 0) =>
        cpu.reg[RtOf(hist[Len(hist)])] =
            Reloaded(OpcodeOf(hist[Len(hist)]),
                     hist[Len(hist) - 1].reg[RtOf(hist[Len(hist) - 1])])

(* SH of a value with a negative low half to an address that is not a
   multiple of 4, read back sign-extended by LH *)
C12_Witness ==
    /\ StoreThenLoad
    /\ OpcodeOf(hist[Len(hist)]) = 33
    /\ AddrOf(hist[Len(hist)])[2] % 4 = 2
    /\ cpu.reg[RtOf(hist[Len(hist)])][1] = 65535
    /\ cpu.reg[RtOf(hist[Len(hist)])][2] = 34545

(* the last step executed COPz, LWCz or SWCz for a slot z whose cop, lwc or
   swc callable is not installed *)
UnsetSlot ==
    /\ Stepped
    /\ \/ Opcode \in 16..19 /\ pre.cpu.coprocessor[Opcode % 4].cop = "NULL"
       \/ Opcode \in 48..51 /\ pre.cpu.coprocessor[Opcode % 4].lwc = "NULL"
       \/ Opcode \in 56..59 /\ pre.cpu.coprocessor[Opcode % 4].swc = "NULL"

(* C13: COPz, LWCz and SWCz for a slot without the callable return
   CoprocessorUnusable and leave the architectural state and memory as they
   were *)
C13_UnsetSlotUnusable ==
    UnsetSlot =>
        /\ last.error = "ExceptionCoprocessorUnusable"
        /\ Arch(cpu) = Arch(pre.cpu)
        /\ mem = pre.mem

(* C14: mips_cpu_reset zeroes the registers, hi, lo and pc and leaves the
   memory handle, the debug level, the debug sink and the debug callback as
   they were *)
C14_ResetKeepsDebugSetup ==
    last.op = "reset" =>
        /\ cpu.reg = [i \in 0..(NUM_REGS - 1) |-> Zero32]
        /\ cpu.hi = Zero32 /\ cpu.lo = Zero32 /\ cpu.pc = Zero32
        /\ cpu.mem = pre.cpu.mem
        /\ cpu.debug = pre.cpu.debug
        /\ cpu.output = pre.cpu.output
        /\ cpu.debug_handle = pre.cpu.debug_handle

(* C15: after mips_cpu_create and after mips_cpu_reset all 32 registers, hi
   and lo are 0, pc is 0 and pcN is 4; mips_cpu_reset does not modify memory *)
C15_CreateAndResetState ==
    last.op \in {"create", "reset"} =>
        /\ \A i \in 0..(NUM_REGS - 1) : cpu.reg[i] = Zero32
        /\ cpu.hi = Zero32 /\ cpu.lo = Zero32
        /\ cpu.pc = Zero32 /\ cpu.pcN = U32(4)
        /\ (last.op = "reset" => mem = pre.mem)

(* C15 witness: a reset of a CPU with a non-zero register, hi and lo and a pc
   away from 0 *)
C15_Witness ==
    /\ last.op = "reset"
    /\ \E i \in 1..(NUM_REGS - 1) : pre.cpu.reg[i] # Zero32
    /\ pre.cpu.hi # Zero32 /\ pre.cpu.lo # Zero32
    /\ pre.cpu.pc # Zero32

(* C16: a step of SYSCALL returns the SystemCall fault and a step of BREAK
   returns the Break fault, whatever the other fields of the word are, and
   registers, hi, lo, pc, pcN and memory are unchanged *)
C16_SyscallBreak ==
    (Stepped /\ Opcode = 0 /\ Funct \in {12, 13}) =>
        /\ last.error = IF Funct = 12 THEN "ExceptionSystemCall" ELSE "ExceptionBreak"
        /\ Arch(cpu) = Arch(pre.cpu)
        /\ mem = pre.mem

(* C16 witness: a SYSCALL word with non-zero rs, rt, rd and shamt has been
   stepped *)
C16_Witness ==
    /\ Stepped /\ Opcode = 0 /\ Funct = 12
    /\ Rs # 0 /\ Rt # 0 /\ Rd # 0 /\ Shamt # 0
    /\ last.error = "ExceptionSystemCall"

(* C17: mips_cpu_set_pc(v) leaves pc = v and pcN = v + 4 modulo 2^32 from any
   prior state, a pending delayed transfer included, and leaves registers,
   hi, lo and memory unchanged *)
C17_SetPc ==
    last.op = "set_pc" =>
        /\ last.error = "Success"
        /\ cpu.pc = last.value
        /\ cpu.pcN = Add32(last.value, U32(4))
        /\ (last.value = <<65535, 65532>> => cpu.pcN = Zero32)
        /\ cpu.reg = pre.cpu.reg /\ cpu.hi = pre.cpu.hi /\ cpu.lo = pre.cpu.lo
        /\ mem = pre.mem

(* C17 witness: mips_cpu_set_pc was called while a delayed transfer was
   pending, and the pending target is gone *)
C17_Witness ==
    /\ last.op = "set_pc"
    /\ pre.cpu.pcN # Add32(pre.cpu.pc, U32(4))
    /\ cpu.pcN # pre.cpu.pcN
    /\ cpu.pc # pre.cpu.pc

(* C18: mips_cpu_set_register(i, v) for i in 1..31 makes
   mips_cpu_get_register(i) yield v and changes no other register, hi, lo, pc
   or pcN; mips_cpu_set_register(0, v) changes nothing; an index of 32 or
   more makes either call return InvalidArgument and change nothing *)
C18_RegisterApi ==
    /\ mips_cpu_get_register(cpu, NUM_REGS).error = "ErrorInvalidArgument"
    /\ last.op = "set_register" =>
          /\ mem = pre.mem
          /\ last.index \in 1..(NUM_REGS - 1) =>
                /\ last.error = "Success"
                /\ mips_cpu_get_register(cpu, last.index) =
                       [error |-> "Success", value |-> last.value]
                /\ cpu = [pre.cpu EXCEPT !.reg[last.index] = last.value]
          /\ last.index = 0 => cpu = pre.cpu
          /\ last.index >= NUM_REGS =>
                last.error = "ErrorInvalidArgument" /\ cpu = pre.cpu

(* the last step executed an ADDU or an ADDIU *)
IsAddU == Stepped /\ (Opcode = 9 \/ (Opcode = 0 /\ Funct = 33))

(* a + b modulo 2^32, from the exact signed sum *)
SumMod(a, b) == <<SumTop(a, b) % 65536, (a[2] + b[2]) % 65536>>

(* C19: ADDU, and ADDIU with the sign-extended immediate, never fault and
   leave (a + b) mod 2^32 in the destination register (register 0 as a
   destination reads 0) *)
C19_UnsignedAdd ==
    IsAddU =>
        /\ last.error = "Success"
        /\ mips_cpu_get_register(cpu, AddDest).value =
               IF AddDest = 0 THEN Zero32 ELSE SumMod(AddA, AddB)

(* the most recent successful step since the last mips_cpu_set_pc or
   mips_cpu_reset, if there is one, was a taken branch or jump *)
TransferPending == Len(hist) > 0 /\ hist[Len(hist)].taken

(* C20: in every reachable state pcN = pc + 4 modulo 2^32, unless the most
   recent successful step was a taken branch or jump and neither
   mips_cpu_set_pc nor mips_cpu_reset has been called since *)
C20_NextIsPcPlus4 ==
    ~TransferPending => cpu.pcN = Add32(cpu.pc, U32(4))

(* C20 witness: the delay-slot instruction of a taken branch or jump has
   executed, pc is at the target and pcN is the address after it *)
C20_Witness ==
    /\ Len(hist) >= 2
    /\ hist[Len(hist) - 1].taken /\ ~hist[Len(hist)].taken
    /\ StepDone
    /\ cpu.pc = hist[Len(hist) - 1].target
    /\ cpu.pc # Add32(pre.cpu.pc, U32(4))
    /\ cpu.pcN = Add32(cpu.pc, U32(4))

(* C21: when every mips_cpu_set_pc argument is a multiple of four, pc and
   pcN are multiples of four in every reachable state *)
C21_PcAligned == cpu.pc[2] % 4 = 0 /\ cpu.pcN[2] % 4 = 0

(* C21 witness: a JR or JALR whose register held a value that is not a
   multiple of four has been stepped *)
C21_Witness ==
    /\ Stepped /\ Opcode = 0 /\ Funct \in {8, 9}
    /\ pre.cpu.reg[Rs][2] % 4 # 0
    /\ last.error = "ExceptionInvalidAlignment"
    /\ cpu.pc = pre.cpu.pc /\ cpu.pcN = pre.cpu.pcN

(* C22: while the debug level is 0 no call, successful or faulting, writes a
   message to the debug sink, the debug callback or standard output *)
C22_LevelZeroSilent == cpu.debug = 0 => last.trace = <<>>

(* C22 witness: at debug level 0 a step has faulted and a register has been
   set *)
C22_Witness ==
    /\ cpu.debug = 0
    /\ StepFault
    /\ \E i \in 1..(NUM_REGS - 1) : cpu.reg[i] # Zero32

(* the last step executed DIV or DIVU on a = rs and b = rt *)
IsDiv == Stepped /\ Opcode = 0 /\ Funct \in {26, 27}
DivA == pre.cpu.reg[Rs]
DivB == pre.cpu.reg[Rt]

Negative(w) == w[1] >= 32768
Abs32(w) == IF Negative(w) THEN Neg32(w) ELSE w

(* q and r are the quotient and the remainder of the unsigned a by b:
   a = q * b + r and r < b *)
IsQuotRem(a, b, q, r) ==
    /\ UMul64(q, b)[1] = Zero32
    /\ ~Ult32(a, UMul64(q, b)[2])
    /\ Add32(UMul64(q, b)[2], r) = a
    /\ Ult32(r, b)

(* q and r are the signed quotient truncated toward zero and the remainder
   with the sign of a *)
IsSignedQuotRem(a, b, q, r) ==
    /\ IsQuotRem(Abs32(a), Abs32(b), Abs32(q), Abs32(r))
    /\ (q # Zero32 => (Negative(q) <=> (Negative(a) # Negative(b))))
    /\ (r # Zero32 => (Negative(r) <=> Negative(a)))

(* C23: for b # 0, DIVU leaves lo = floor(a / b) and hi = a mod b, and DIV,
   except for a = -2^31 with b = -1, leaves in lo the signed quotient
   truncated toward zero and in hi the remainder with the sign of a; both
   succeed and advance pc *)
C23_Division ==
    (IsDiv /\ DivB # Zero32
       /\ ~(Funct = 26 /\ DivA = <<32768, 0>> /\ DivB = <<65535, 65535>>)) =>
        /\ last.error = "Success"
        /\ cpu.pc = pre.cpu.pcN
        /\ IF Funct = 27 THEN IsQuotRem(DivA, DivB, cpu.lo, cpu.hi)
                         ELSE IsSignedQuotRem(DivA, DivB, cpu.lo, cpu.hi)

(* C24: with a multiple of four x in rs, JALR at p leaves p + 8 in rd
   (rd = rs included) and x as the address after the delay slot, and JR
   leaves x as that address and changes no general register *)
C24_JumpRegister ==
    (Stepped /\ Opcode = 0 /\ Funct \in {8, 9} /\ pre.cpu.reg[Rs][2] % 4 = 0) =>
        /\ last.error = "Success"
        /\ cpu.pc = pre.cpu.pcN
        /\ cpu.pcN = pre.cpu.reg[Rs]
        /\ IF Funct = 9
           THEN cpu.reg = [pre.cpu.reg EXCEPT
                             ![Rd] = IF Rd = 0 THEN Zero32
                                     ELSE Add32(pre.cpu.pc, U32(8))]
           ELSE cpu.reg = pre.cpu.reg

(* C25: a step of an instruction with opcode 1 whose rt field is none of 0,
   1, 16, 17 returns InvalidInstruction and leaves registers, hi, lo, pc and
   pcN unchanged *)
C25_RegimmUnmapped ==
    (Stepped /\ Opcode = 1 /\ Rt \notin {0, 1, 16, 17}) =>
        /\ last.error = "ExceptionInvalidInstruction"
        /\ Arch(cpu) = Arch(pre.cpu)

(* the last step executed an SWCz whose slot has an swc callable that
   succeeds, at a 4-aligned effective address inside the memory *)
IsSwc ==
    /\ Stepped /\ Opcode \in 56..59
    /\ pre.cpu.coprocessor[Opcode % 4].swc = "ok"
SwcAddr == Add32(pre.cpu.reg[Rs], SignExt16(last.instr[2]))
BytesAt(m, a) == [i \in 1..4 |-> m[a[2] + i - 1]]

(* C26: after a successful SWCz at a 4-aligned address A inside the memory
   the four bytes at A hold the word the swc callable supplied (in the
   callable's byte order or most significant byte first), pc has advanced
   and no general register has changed *)
C26_StoreFromCoprocessor ==
    (IsSwc /\ StepDone /\ SwcAddr[2] % 4 = 0 /\ InRange(SwcAddr, 4)) =>
        /\ BytesAt(mem, SwcAddr) \in {WordBytes(CopWord), WordBytes(reverse_word(CopWord))}
        /\ cpu.pc = pre.cpu.pcN
        /\ cpu.reg = pre.cpu.reg

(* the data access of the load or store the last step executed: the
   arguments its handler passes to mem_base, the address, and whether
   mem_base got as far as calling the collaborator *)
IsDataAccess == Stepped /\ Opcode \in {32, 33, 34, 35, 36, 37, 38, 40, 41, 42, 43, 46}
AccessLength == IF Opcode \in {35, 43} THEN 4 ELSE IF Opcode \in {32, 36, 40} THEN 1 ELSE 2
AccessAlign == IF Opcode \in {35, 43} THEN 4 ELSE IF Opcode \in {33, 37, 41} THEN 2 ELSE 1
AccessOffset == IF Opcode \in {38, 46} THEN -1 ELSE 0
AccessAddr ==
    Add32(Add32(pre.cpu.reg[Rs], SignExt16(last.instr[2])), FromInt32(AccessOffset))
AccessMade == IsDataAccess /\ AccessAddr[2] % AccessAlign = 0

(* what the collaborator answered to the span as requested, and to the span
   of whole words around it that mem_base asks for after InvalidAlignment *)
FetchAnswer == mips_mem_read(pre.mem, pre.cpu.pc, 4).error
FirstAnswer ==
    IF Opcode < 40 THEN mips_mem_read(pre.mem, AccessAddr, AccessLength).error
    ELSE mips_mem_write(pre.mem, AccessAddr, AccessLength,
                        [i \in 1..AccessLength |-> 0]).error
SecondAnswer ==
    mips_mem_read(pre.mem,
                  <<AccessAddr[1], AccessAddr[2] - (AccessAddr[2] % 4)>>,
                  4 * (((AccessAddr[2] % 4) + AccessLength + 3) \div 4)).error

(* C27 as stated: a fault the collaborator returns for the fetch or for the
   data access of a load or store, InvalidAlignment for a span it does not
   accept included, is what the step returns, and registers, hi, lo, pc and
   pcN are unchanged *)
C27_MemoryFaultVerbatim ==
    /\ (last.op = "step" /\ pre.cpu.pc[2] % 4 = 0 /\ FetchAnswer # "Success") =>
          last.error = FetchAnswer /\ Arch(cpu) = Arch(pre.cpu)
    /\ (AccessMade /\ FirstAnswer # "Success") =>
          last.error = FirstAnswer /\ Arch(cpu) = Arch(pre.cpu)

(* C27, amended: the same for the fetch and for every fault of the data
   access but InvalidAlignment; after InvalidAlignment the step returns
   what the collaborator answers to the span of whole words around the
   access, a fault unchanged and with the state unchanged, or success *)
C27_MemoryFaultAfterRetry ==
    /\ (last.op = "step" /\ pre.cpu.pc[2] % 4 = 0 /\ FetchAnswer # "Success") =>
          last.error = FetchAnswer /\ Arch(cpu) = Arch(pre.cpu)
    /\ (AccessMade /\ FirstAnswer \notin {"Success", "ExceptionInvalidAlignment"}) =>
          last.error = FirstAnswer /\ Arch(cpu) = Arch(pre.cpu)
    /\ (AccessMade /\ FirstAnswer = "ExceptionInvalidAlignment") =>
          /\ last.error = SecondAnswer
          /\ (SecondAnswer # "Success" => Arch(cpu) = Arch(pre.cpu))

(* C27 witness: the collaborator refused the span of a load or store with
   InvalidAlignment and the span of whole words around it with
   InvalidAddress, and the step returned InvalidAddress *)
C27_Witness ==
    /\ AccessMade
    /\ FirstAnswer = "ExceptionInvalidAlignment"
    /\ SecondAnswer = "ExceptionInvalidAddress"
    /\ last.error = "ExceptionInvalidAddress"

(* the last step executed SUB on a = rs and b = rt; the exact signed
   difference a - b in units of 2^16 and below *)
IsSub == Stepped /\ Opcode = 0 /\ Funct = 34
DiffTop(a, b) == SignedHi(a) - SignedHi(b) + ((a[2] - b[2]) \div 65536)
DiffFits(a, b) == DiffTop(a, b) \in -32768..32767
DiffWord(a, b) == FromInt32(DiffTop(a, b) * 65536 + ((a[2] - b[2]) % 65536))

(* C28: SUB returns ArithmeticOverflow exactly when the signed difference
   a - b is outside [-2^31, 2^31 - 1], b = -2^31 included, and then rd and pc
   are unchanged; otherwise it succeeds and rd holds a - b *)
C28_SubOverflow ==
    IsSub =>
        IF DiffFits(pre.cpu.reg[Rs], pre.cpu.reg[Rt])
        THEN /\ last.error = "Success"
             /\ mips_cpu_get_register(cpu, Rd).value =
                    IF Rd = 0 THEN Zero32
                    ELSE DiffWord(pre.cpu.reg[Rs], pre.cpu.reg[Rt])
        ELSE /\ last.error = "ExceptionArithmeticOverflow"
             /\ cpu.reg[Rd] = pre.cpu.reg[Rd]
             /\ cpu.pc = pre.cpu.pc

(* the opcodes and the 'function' fields without an instruction *)
UnmappedOpcodes == (20..31) \cup {39, 44, 45, 47} \cup (52..55) \cup (60..63)
UnmappedFuncts ==
    {1, 5, 10, 11, 14, 15} \cup (20..23) \cup (28..31) \cup {40, 41} \cup (44..63)
IsUnmapped ==
    Stepped /\ (Opcode \in UnmappedOpcodes \/ (Opcode = 0 /\ Funct \in UnmappedFuncts))

(* C29: a step of a word with an unmapped opcode, or with opcode 0 and an
   unmapped 'function' field, returns InvalidInstruction and leaves
   registers, hi, lo, pc, pcN and memory unchanged; a step of any other word
   returns what the handler of its table entry returns and leaves what that
   handler leaves, and no handler of opcode 0 returns InvalidInstruction *)
C29_UnmappedInvalid ==
    /\ IsUnmapped =>
          /\ last.error = "ExceptionInvalidInstruction"
          /\ Arch(cpu) = Arch(pre.cpu)
          /\ mem = pre.mem
    /\ (Stepped /\ ~IsUnmapped) =>
          /\ operations[Opcode] # "NULL"
          /\ (Opcode = 0 => rtype_ops[Funct] # "NULL"
                              /\ last.error # "ExceptionInvalidInstruction")
          /\ \E ub \in SignedOverflow :
                Dispatch(pre.cpu, pre.mem, last.instr, operations[Opcode], ub) =
                    [error |-> last.error, state |-> cpu, mem |-> mem,
                     taken |-> last.taken, target |-> last.target]

(* C29 witness: a word with an unmapped opcode has been stepped on a CPU
   with a non-zero register *)
C29_Witness ==
    /\ Stepped /\ Opcode \in UnmappedOpcodes
    /\ pre.cpu.reg[1] # Zero32
    /\ last.error = "ExceptionInvalidInstruction"

(* C30: when a step faults while the transfer of a taken branch or jump is
   pending, pc still addresses the instruction that faulted, the one of the
   delay slot, and pcN still holds the target; and when, with neither
   mips_cpu_set_pc nor mips_cpu_reset called since the branch, a step
   succeeds after such a fault, it has executed the delay-slot instruction
   and leaves pc equal to the target *)
C30_SlotFaultKeepsTransfer ==
    /\ (StepFault /\ TransferPending) =>
          /\ cpu.pc = pre.cpu.pc
          /\ cpu.pc = hist[Len(hist)].pcN
          /\ cpu.pcN = hist[Len(hist)].target
    /\ (StepDone /\ Len(hist) >= 2
           /\ hist[Len(hist) - 1].taken /\ hist[Len(hist)].retry) =>
          /\ hist[Len(hist)].pc = hist[Len(hist) - 1].pcN
          /\ last.instr = Fetch(pre.cpu, pre.mem)
          /\ pre.cpu.pc = hist[Len(hist) - 1].pcN
          /\ cpu.pc = hist[Len(hist) - 1].target

(* C30 witness: the jump at 0 was taken, the instruction of its delay slot
   faulted, a register was set, and the step after that succeeded at the
   delay slot and left pc at the target 12 *)
C30_Witness ==
    /\ StepDone /\ Len(hist) = 2 /\ steps = 3 /\ calls = 1
    /\ hist[1].taken /\ hist[1].target = U32(12)
    /\ hist[2].retry /\ hist[2].pc = U32(4)
    /\ pre.cpu.pcN = U32(12)
    /\ cpu.pc = U32(12)

(* the number of calls to the memory collaborator that mem_base made for
   the data access of the last step *)
AccessCalls ==
    mem_base(pre.cpu, pre.mem, get_itype(last.instr), Opcode < 40, AccessLength,
             [i \in 1..AccessLength |-> 0], AccessOffset, AccessAlign).accesses

(* C31: LW and SW whose effective address is not a multiple of 4, and LH,
   LHU and SH whose effective address is not a multiple of 2, return
   InvalidAlignment with no call to the memory collaborator, and rt, pc, pcN
   and every memory byte are unchanged *)
C31_MisalignedAccess ==
    (Stepped /\ \/ Opcode \in {35, 43} /\ AccessAddr[2] % 4 # 0
                \/ Opcode \in {33, 37, 41} /\ AccessAddr[2] % 2 # 0) =>
        /\ last.error = "ExceptionInvalidAlignment"
        /\ AccessCalls = 0
        /\ cpu.reg[Rt] = pre.cpu.reg[Rt]
        /\ cpu.pc = pre.cpu.pc /\ cpu.pcN = pre.cpu.pcN
        /\ mem = pre.mem

(* C31 witness: LW into a non-zero $2 at an address that is 2 modulo 4 and
   inside the memory has returned InvalidAlignment *)
C31_Witness ==
    /\ Stepped /\ Opcode = 35 /\ Rt = 2
    /\ AccessAddr[2] % 4 = 2 /\ InRange(AccessAddr, 2)
    /\ pre.cpu.reg[2] # Zero32
    /\ last.error = "ExceptionInvalidAlignment"

(* C32: a step called with pc not a multiple of four returns
   InvalidAlignment without a memory read and leaves registers, hi, lo, pc,
   pcN and memory unchanged; and a step that executes JR or JALR, whatever
   the register holds, leaves pc and pcN multiples of four, so that no
   fetch is made from a misaligned pc *)
C32_MisalignedPc ==
    /\ (last.op = "step" /\ pre.cpu.pc[2] % 4 # 0) =>
          /\ last.error = "ExceptionInvalidAlignment"
          /\ step_reads(pre.cpu) = 0 /\ ~last.fetched
          /\ Arch(cpu) = Arch(pre.cpu)
          /\ mem = pre.mem
    /\ (Stepped /\ Opcode = 0 /\ Funct \in {8, 9}) =>
          cpu.pc[2] % 4 = 0 /\ cpu.pcN[2] % 4 = 0
    /\ last.fetched => step_reads(pre.cpu) = 1 /\ pre.cpu.pc[2] % 4 = 0

(* C32 witness: mips_cpu_set_pc has put pc at 2, where the bytes make a
   word that is not the one at 0, and the step has returned
   InvalidAlignment *)
C32_Witness ==
    /\ last.op = "step" /\ pre.cpu.pc = U32(2)
    /\ last.error = "ExceptionInvalidAlignment"
    /\ pre.mem[0] # 0

(* the last step executed a conditional branch; its condition on the
   registers of before the step, and its target *)
IsCondBranch ==
    /\ Stepped
    /\ \/ Opcode \in {4, 5}
       \/ Opcode \in {6, 7} /\ Rt = 0
       \/ Opcode = 1 /\ Rt \in {0, 1, 16, 17}
BranchCond ==
    CASE Opcode = 4 -> pre.cpu.reg[Rs] = pre.cpu.reg[Rt]
      [] Opcode = 5 -> pre.cpu.reg[Rs] # pre.cpu.reg[Rt]
      [] Opcode = 6 -> Negative(pre.cpu.reg[Rs]) \/ pre.cpu.reg[Rs] = Zero32
      [] Opcode = 7 -> ~Negative(pre.cpu.reg[Rs]) /\ pre.cpu.reg[Rs] # Zero32
      [] Opcode = 1 /\ Rt \in {0, 16} -> Negative(pre.cpu.reg[Rs])
      [] OTHER -> ~Negative(pre.cpu.reg[Rs])
BranchTarget ==
    Add32(Add32(pre.cpu.pc, U32(4)), Shl32(SignExt16(last.instr[2]), 2))

(* C33: a step on a conditional branch at p succeeds; the branch is taken
   exactly when its condition holds on the registers of before the step,
   and then pcN is p + 4 + (sign_extend(imm16) << 2) modulo 2^32; when it is
   not taken pc and pcN move as after a straight-line instruction *)
C33_ConditionalBranch ==
    IsCondBranch =>
        /\ last.error = "Success"
        /\ last.taken <=> BranchCond
        /\ cpu.pc = pre.cpu.pcN
        /\ cpu.pcN = IF BranchCond THEN BranchTarget ELSE Add32(pre.cpu.pcN, U32(4))

(* C33 but for the steps that the build's treatment of a left shift of a
   negative int ended *)
C33_UnlessTrapped ==
    last.error # "Aborted" => C33_ConditionalBranch

(* C34: DIV and DIVU with rt = 0, and DIV with rs = -2^31 and rt = -1,
   return success, leave hi = 0 and lo = 0, and advance pc *)
C34_DivideByZero ==
    (IsDiv /\ (DivB = Zero32
                \/ (Funct = 26 /\ DivA = <<32768, 0>> /\ DivB = <<65535, 65535>>))) =>
        /\ last.error = "Success"
        /\ cpu.hi = Zero32 /\ cpu.lo = Zero32
        /\ cpu.pc = pre.cpu.pcN
        /\ cpu.pcN = Add32(pre.cpu.pcN, U32(4))

(* C34 witness: a division by zero has cleared a non-zero lo *)
C34_Witness ==
    /\ IsDiv /\ DivB = Zero32 /\ DivA # Zero32
    /\ pre.cpu.lo # Zero32
    /\ cpu.lo = Zero32 /\ cpu.hi = Zero32
    /\ last.error = "Success"

(* residues modulo five primes below 2^15, whose product exceeds 2^65: of a
   32-bit word and of the 64-bit pair hi:lo, each read as unsigned or as
   two's complement.  Two integers of a range narrower than that product
   are equal exactly when their residues are *)
Moduli == {32749, 32719, 32717, 32713, 32707}
Res32(w, signed, p) ==
    LET u == (((w[1] % p) * 65536) + w[2]) % p
        top == ((65536 % p) * (65536 % p)) % p
    IN  IF signed /\ Negative(w) THEN (u + p - top) % p ELSE u
Res64(hi, lo, signed, p) ==
    LET x1 == (((hi[1] % p) * 65536) + hi[2]) % p
        x2 == ((x1 * 65536) + lo[1]) % p
        u  == ((x2 * 65536) + lo[2]) % p
        t2 == ((65536 % p) * (65536 % p)) % p
        top == (t2 * t2) % p
    IN  IF signed /\ Negative(hi) THEN (u + p - top) % p ELSE u
IsProduct(hi, lo, a, b, signed) ==
    \A p \in Moduli :
        Res64(hi, lo, signed, p) = (Res32(a, signed, p) * Res32(b, signed, p)) % p

(* C37: a step on MULT leaves in hi:lo the 64-bit signed product of rs and
   rt, a step on MULTU the unsigned product, and both succeed; a step on
   MFHI rd or MFLO rd with rd # 0 succeeds and leaves hi or lo in rd *)
C37_Multiply ==
    /\ (Stepped /\ Opcode = 0 /\ Funct \in {24, 25}) =>
          /\ last.error = "Success"
          /\ IsProduct(cpu.hi, cpu.lo, pre.cpu.reg[Rs], pre.cpu.reg[Rt], Funct = 24)
          /\ cpu.pc = pre.cpu.pcN
    /\ (Stepped /\ Opcode = 0 /\ Funct \in {16, 18} /\ Rd # 0) =>
          /\ last.error = "Success"
          /\ cpu.reg[Rd] = IF Funct = 16 THEN pre.cpu.hi ELSE pre.cpu.lo
          /\ cpu.hi = pre.cpu.hi /\ cpu.lo = pre.cpu.lo

(* C37 witness: MULT of two negative values, then MFHI and MFLO, have left a
   non-zero hi in $3 and a non-zero lo in $1 *)
C37_Witness ==
    /\ Stepped /\ Opcode = 0 /\ Funct = 18 /\ Rd = 1
    /\ Len(hist) = 3 /\ hist[1].instr = RType(1, 2, 0, 0, 24)
    /\ Negative(hist[1].reg[1]) /\ Negative(hist[1].reg[2])
    /\ cpu.reg[3] = cpu.hi /\ cpu.reg[1] = cpu.lo
    /\ cpu.hi # Zero32 /\ cpu.lo # Zero32

(* the 16-bit and the 32-bit value whose bytes, most significant first,
   are the bytes of memory m from address n on *)
BigHalf(m, n) == m[n] * 256 + m[n + 1]
BigWord(m, n) == <<BigHalf(m, n), BigHalf(m, n + 2)>>

(* C35: after a successful SW of v at A the bytes at A, A+1, A+2, A+3 are
   bits 31..24, 23..16, 15..8 and 7..0 of v; a successful LW leaves in rt
   the word, LH the sign-extended and LHU the zero-extended halfword, whose
   most significant byte is the byte at A; and the instruction a step
   executes is the word whose most significant byte is the byte at pc *)
C35_BigEndian ==
    /\ (StepDone /\ Stepped /\ Opcode = 43) =>
          /\ mem[AccessAddr[2]]     = pre.cpu.reg[Rt][1] \div 256
          /\ mem[AccessAddr[2] + 1] = pre.cpu.reg[Rt][1] % 256
          /\ mem[AccessAddr[2] + 2] = pre.cpu.reg[Rt][2] \div 256
          /\ mem[AccessAddr[2] + 3] = pre.cpu.reg[Rt][2] % 256
    /\ (StepDone /\ Stepped /\ Opcode \in {33, 35, 37} /\ Rt # 0) =>
          cpu.reg[Rt] =
              CASE Opcode = 35 -> BigWord(pre.mem, AccessAddr[2])
                [] Opcode = 33 -> SignExt16(BigHalf(pre.mem, AccessAddr[2]))
                [] OTHER       -> U32(BigHalf(pre.mem, AccessAddr[2]))
    /\ Stepped =>
          /\ last.instr = BigWord(pre.mem, pre.cpu.pc[2])
          /\ \E ub \in SignedOverflow :
                Dispatch(pre.cpu, pre.mem, BigWord(pre.mem, pre.cpu.pc[2]),
                         operations[pre.mem[pre.cpu.pc[2]] \div 4], ub) =
                    [error |-> last.error, state |-> cpu, mem |-> mem,
                     taken |-> last.taken, target |-> last.target]

(* C35 witness: SW has stored 0x12345678 at address 4 as the bytes 0x12,
   0x34, 0x56, 0x78 over the bytes 0x86, 0xF1, 0xA5, 0xC3 *)
C35_Witness ==
    /\ StepDone /\ Stepped /\ Opcode = 43 /\ AccessAddr = U32(4)
    /\ BytesAt(pre.mem, U32(4)) = <<134, 241, 165, 195>>
    /\ BytesAt(mem, U32(4)) = <<18, 52, 86, 120>>

(* the k low-order bytes of word w, most significant first *)
LowBytes(w, k) ==
    CASE k = 1 -> <<w[2] % 256>>
      [] k = 2 -> <<w[2] \div 256, w[2] % 256>>
      [] OTHER -> <<w[1] \div 256, w[1] % 256, w[2] \div 256, w[2] % 256>>

(* C36: after a successful SB, SH or SW at A the 1, 2 or 4 bytes from A on
   are the low-order bytes of rt, every other memory byte is what it was,
   and so are all general registers, hi and lo *)
C36_StoreFrame ==
    (StepDone /\ Stepped /\ Opcode \in {40, 41, 43}) =>
        /\ \A a \in DOMAIN mem :
              mem[a] = IF a >= AccessAddr[2] /\ a < AccessAddr[2] + AccessLength
                       THEN LowBytes(pre.cpu.reg[Rt], AccessLength)[a - AccessAddr[2] + 1]
                       ELSE pre.mem[a]
        /\ cpu.reg = pre.cpu.reg
        /\ cpu.hi = pre.cpu.hi /\ cpu.lo = pre.cpu.lo

(* C36 witness: SB at address 5, inside the block at 4, has changed the
   byte at 5 and left the non-zero bytes at 4, 6 and 7 *)
C36_Witness ==
    /\ StepDone /\ Stepped /\ Opcode = 40 /\ AccessAddr = U32(5)
    /\ mem[5] # pre.mem[5]
    /\ <<mem[4], mem[6], mem[7]>> = <<134, 165, 195>>
    /\ cpu.reg[2] # Zero32

(* the effective address rs + sign_extend(imm16) of the last step's
   instruction, when it is inside the memory with the byte after it (Next)
   or the byte before it (Prev) *)
EffA == Add32(pre.cpu.reg[Rs], SignExt16(last.instr[2]))
WithNext == EffA[1] = 0 /\ EffA[2] + 1 < MemSize
WithPrev == EffA[1] = 0 /\ EffA[2] >= 1 /\ EffA[2] < MemSize

(* C38: LWL at A, with A and A + 1 inside the memory, succeeds and leaves
   rt = (mem[A] << 24) | (mem[A+1] << 16) | (old rt & 0xFFFF); LWR at A, with
   A - 1 and A inside the memory, succeeds and leaves
   rt = (old rt & 0xFFFF0000) | (mem[A-1] << 8) | mem[A]; at every alignment
   of A *)
C38_LoadLeftRight ==
    /\ (Stepped /\ Opcode = 34 /\ Rt # 0 /\ WithNext) =>
          /\ last.error = "Success"
          /\ cpu.reg[Rt] = <<pre.mem[EffA[2]] * 256 + pre.mem[EffA[2] + 1],
                             pre.cpu.reg[Rt][2]>>
    /\ (Stepped /\ Opcode = 38 /\ Rt # 0 /\ WithPrev) =>
          /\ last.error = "Success"
          /\ cpu.reg[Rt] = <<pre.cpu.reg[Rt][1],
                             pre.mem[EffA[2] - 1] * 256 + pre.mem[EffA[2]]>>

(* C38 witness: LWL at address 7 has put the bytes at 7 and 8, which lie in
   two blocks, in the upper half of $2 and kept its lower half 0x5678 *)
C38_Witness ==
    /\ Stepped /\ Opcode = 34 /\ Rt = 2 /\ EffA = U32(7)
    /\ pre.cpu.reg[2] = <<4660, 22136>>
    /\ pre.mem[7] = 195
    /\ cpu.reg[2] = <<49920, 22136>>

(* a second CPU instance that differs from c in the debug level and in one
   entry of the exception-handler table, set through the API: a is
   <<level, exception, handler>> *)
TwinArgs ==
    {<<1, 8198, U32(64)>>, <<2, 8199, <<65535, 65532>>>>, <<3, 8198, U32(8)>>,
     <<3, 8199, U32(64)>>}
Twin(c, a) ==
    mips_cpu_set_exception_handler(
        mips_cpu_set_debug_level(c, a[1], c.output).state, a[2], a[3]).state

(* two results of mips_cpu_step agree in the value returned, in registers,
   hi, lo, pc, pcN, in the coprocessor slots and in the memory *)
SameOutcome(a, b) ==
    /\ a.error = b.error
    /\ Arch(a.state) = Arch(b.state)
    /\ a.state.coprocessor = b.state.coprocessor
    /\ a.mem = b.mem

(* C39: in every reachable state, a step of the CPU and a step of a CPU
   that differs from it only in the debug level and in the exception-handler
   table return the same value and leave the same registers, hi, lo, pc,
   pcN, coprocessor slots and memory *)
C39_TableAndDebugInert ==
    \A a \in TwinArgs, ub \in SignedOverflow :
        /\ Twin(cpu, a).exception # cpu.exception
        /\ SameOutcome(mips_cpu_step(cpu, mem, ub), mips_cpu_step(Twin(cpu, a), mem, ub))

(* C39 witness: a CPU at debug level 0 with a non-zero register is at a
   SYSCALL, which faults with SystemCall, and its twin at debug level 3 has
   address 64 as the handler of SystemCall *)
C39_Witness ==
    /\ mips_cpu_step(cpu, mem, "wrap").error = "ExceptionSystemCall"
    /\ mips_cpu_step(Twin(cpu, <<3, 8199, U32(64)>>), mem, "wrap").error
           = "ExceptionSystemCall"
    /\ Twin(cpu, <<3, 8199, U32(64)>>).exception[7] = U32(64)
    /\ Twin(cpu, <<3, 8199, U32(64)>>).debug = 3 /\ cpu.debug = 0
    /\ cpu.reg[1] # Zero32

====
